---- MODULE Spec2Model ----
(***************************************************************************)
(* Traffic simulation engine of projet-ia-circulation: the road map, the   *)
(* traffic lights, the per-car movement algorithm and the tick loop of     *)
(* Simulation, together with the control surface used by the learning      *)
(* environment.                                                            *)
(***************************************************************************)
EXTENDS Integers, Sequences, FiniteSets, TLC

VARIABLES tick_count, cars, traffic_lights, total_wait_time_all_cars,
          total_cars_spawned, spawn_rate, wait_time_history,
          queue_length_history, max_queue_length, restart_delay,
          rand_state, rand_stride, last_call, error, phase_commanded,
          snapshot, waiting_pairs, query, refused, env

vars == <<tick_count, cars, traffic_lights, total_wait_time_all_cars,
          total_cars_spawned, spawn_rate, wait_time_history,
          queue_length_history, max_queue_length, restart_delay,
          rand_state, rand_stride, last_call, error, phase_commanded,
          snapshot, waiting_pairs, query, refused, env>>

(***************************************************************************)
(* Bounds of the exploration.                                              *)
(***************************************************************************)
MaxTick == 62

MaxStride == 3

MaxRestartDelay == 2

MaxSpawnRate == 2

MaxCommanded == 1

MaxControlTick == 31

SnapshotTick == 150

MaxProgressTick == 270

\* How far outside the grid the map is queried.
MaxOutside == 2

\* Calls of TrafficEnv.step explored in one episode.
MaxEnvSteps == 3

\* Calls of TrafficEnv.reset explored.
MaxEpisodes == 1

(***************************************************************************)
(* traffic_sim/constants.py                                                *)
(***************************************************************************)
GRID_SIZE == 20

ROAD == 1

INTERSECTION == 2

BUILDING == 3

GRASS == 4

NORTH == <<0, -1>>

SOUTH == <<0, 1>>

EAST == <<1, 0>>

WEST == <<-1, 0>>

RED == 0

GREEN == 1

FPS == 10

SPAWN_RATE == 20

MAX_CARS == 20

\* The names constants.py binds.
constants_names ==
    {"GRID_SIZE", "CELL_SIZE", "SCREEN_WIDTH", "SCREEN_HEIGHT",
     "EMPTY", "ROAD", "INTERSECTION", "BUILDING", "GRASS",
     "NORTH", "SOUTH", "EAST", "WEST", "DIRECTIONS",
     "RED", "GREEN", "YELLOW", "FPS", "SPAWN_RATE", "MAX_CARS"}

\* Python's None as returned by Map.get_cell out of bounds: no cell kind.
None == -1

\* Python's None as the value of Car.entry_direction: no heading.
NoDirection == <<>>

(***************************************************************************)
(* traffic_sim/map.py                                                      *)
(***************************************************************************)
width == GRID_SIZE

height == GRID_SIZE

\* Map.intersections, in the order _generate_map appends them.
map_intersections ==
    << <<5, 10>>, <<6, 10>>, <<5, 11>>, <<6, 11>>,
       <<10, 10>>, <<11, 10>>, <<10, 11>>, <<11, 11>> >>

\* The grid after _generate_map.  The random BUILDING decoration only ever
\* replaces GRASS on cells that are no road; both kinds read as "not road".
grid(x, y) ==
    IF \E k \in 1..Len(map_intersections) : map_intersections[k] = <<x, y>>
    THEN INTERSECTION
    ELSE IF y = 10 \/ y = 11 \/ x = 10 \/ x = 11 \/ x = 5 \/ x = 6
         THEN ROAD
         ELSE GRASS

\* Spawn points of which the first lies one row below the eastbound lane.
spawn_points_beside_road ==
    << <<0, 12, EAST>>, <<width - 1, 10, WEST>>, <<10, 0, SOUTH>>,
       <<11, height - 1, NORTH>>, <<5, 0, SOUTH>>, <<6, height - 1, NORTH>> >>

spawn_points ==
    << <<0, 11, EAST>>, <<width - 1, 10, WEST>>, <<10, 0, SOUTH>>,
       <<11, height - 1, NORTH>>, <<5, 0, SOUTH>>, <<6, height - 1, NORTH>> >>

in_bounds(x, y) == 0 <= x /\ x < width /\ 0 <= y /\ y < height

\* A lookup without the bounds test: Python's indexing counts a negative
\* index from the end of the list.
get_cell_unchecked(x, y) == grid(x % width, y % height)

get_cell(x, y) == IF in_bounds(x, y) THEN grid(x, y) ELSE None

is_road(x, y) == get_cell(x, y) = ROAD \/ get_cell(x, y) = INTERSECTION

is_intersection(x, y) == get_cell(x, y) = INTERSECTION

\* Lane rules with the two rows of the horizontal road swapped.
get_allowed_directions_rows_swapped(x, y) ==
    IF y = 11 THEN <<WEST>>
    ELSE IF y = 10 THEN <<EAST>>
    ELSE IF x = 10 \/ x = 5 THEN <<SOUTH>>
    ELSE IF x = 11 \/ x = 6 THEN <<NORTH>>
    ELSE <<>>

get_allowed_directions(x, y) ==
    IF y = 11 THEN <<EAST>>
    ELSE IF y = 10 THEN <<WEST>>
    ELSE IF x = 10 \/ x = 5 THEN <<SOUTH>>
    ELSE IF x = 11 \/ x = 6 THEN <<NORTH>>
    ELSE <<>>

(***************************************************************************)
(* traffic_sim/traffic_light.py                                            *)
(***************************************************************************)
TrafficLight(x, y, axis, initial_state) ==
    [x |-> x, y |-> y, axis |-> axis, state |-> initial_state,
     timer |-> 0, cycle_time |-> 30]

\* The methods class TrafficLight defines.
TrafficLightMethods == {"__init__", "toggle", "update", "is_green", "is_red"}

toggle(tl) == [tl EXCEPT !.state = IF tl.state = RED THEN GREEN ELSE RED]

\* An update that toggles one tick late.
update_late(tl) ==
    LET t == [tl EXCEPT !.timer = tl.timer + 1]
    IN  IF t.timer > t.cycle_time
        THEN [toggle(t) EXCEPT !.timer = 0]
        ELSE t

\* An update that toggles without restarting the timer.
update_without_reset(tl) ==
    LET t == [tl EXCEPT !.timer = tl.timer + 1]
    IN  IF t.timer >= t.cycle_time THEN toggle(t) ELSE t

update(tl) ==
    LET t == [tl EXCEPT !.timer = tl.timer + 1]
    IN  IF t.timer >= t.cycle_time
        THEN [toggle(t) EXCEPT !.timer = 0]
        ELSE t

is_green(tl) == tl.state = GREEN

is_red(tl) == tl.state = RED

(***************************************************************************)
(* Simulation._init_traffic_lights / _add_intersection_lights              *)
(***************************************************************************)
\* A quadruple whose four lights all start Green.
_add_intersection_lights_all_green(x_min, x_max, y_min, y_max) ==
    << TrafficLight(x_min - 1, y_min - 1, "VERTICAL", GREEN),
       TrafficLight(x_max + 1, y_max + 1, "VERTICAL", GREEN),
       TrafficLight(x_min - 1, y_max + 1, "HORIZONTAL", GREEN),
       TrafficLight(x_max + 1, y_min - 1, "HORIZONTAL", GREEN) >>

_add_intersection_lights(x_min, x_max, y_min, y_max) ==
    << TrafficLight(x_min - 1, y_min - 1, "VERTICAL", GREEN),
       TrafficLight(x_max + 1, y_max + 1, "VERTICAL", GREEN),
       TrafficLight(x_min - 1, y_max + 1, "HORIZONTAL", RED),
       TrafficLight(x_max + 1, y_min - 1, "HORIZONTAL", RED) >>

\* Simulation.intersections: id -> the indices of its four lights in
\* traffic_lights (the dictionary holds the same objects) and its bounds.
intersections ==
    [id \in {0, 1} |->
        IF id = 0
        THEN [lights |-> <<1, 2, 3, 4>>, bounds |-> <<5, 6, 10, 11>>]
        ELSE [lights |-> <<5, 6, 7, 8>>, bounds |-> <<20, 21, 10, 11>>]]

_init_traffic_lights ==
    _add_intersection_lights(5, 6, 10, 11) \o
    _add_intersection_lights(20, 21, 10, 11)

(***************************************************************************)
(* traffic_sim/car.py                                                      *)
(***************************************************************************)
\* "from .constants import NORTH, SOUTH, EAST, WEST, RESTART_DELAY"
car_imports == {"NORTH", "SOUTH", "EAST", "WEST", "RESTART_DELAY"}

\* The exception loading car.py raises ("none" when it loads): a from-import
\* of a name the module does not bind is an ImportError.
import_car ==
    IF car_imports \subseteq constants_names THEN "none" ELSE "ImportError"

Car(id, x, y, direction) ==
    [id |-> id, x |-> x, y |-> y, direction |-> direction,
     waiting |-> FALSE, entry_direction |-> NoDirection,
     ticks_in_intersection |-> 0, total_wait_time |-> 0,
     current_wait_time |-> 0, restart_delay_counter |-> 0,
     was_waiting |-> FALSE]

is_opposite(d, e) == d[1] = -e[1] /\ d[2] = -e[2]

_is_conflicting_direction(self, other_direction) ==
    IF self.direction = other_direction THEN FALSE
    ELSE IF is_opposite(self.direction, other_direction) THEN FALSE
    ELSE TRUE

\* "for car in other_cars: if car.id != self.id and car.x == x and car.y == y"
occupied_by_other(self, other_cars, x, y) ==
    \E j \in 1..Len(other_cars) :
        other_cars[j].id /= self.id /\ other_cars[j].x = x /\ other_cars[j].y = y

is_right_turn(direction, d) ==
    \/ direction = NORTH /\ d = EAST
    \/ direction = EAST /\ d = SOUTH
    \/ direction = SOUTH /\ d = WEST
    \/ direction = WEST /\ d = NORTH

\* The headings the random draws of _update_direction_at_intersection can
\* select among valid_dirs (more than one candidate).
turn_choices(direction, valid_dirs) ==
    LET ds == {valid_dirs[k] : k \in 1..Len(valid_dirs)}
        LastOf(S) == valid_dirs[CHOOSE k \in 1..Len(valid_dirs) :
                        /\ valid_dirs[k] \in S
                        /\ \A m \in (k + 1)..Len(valid_dirs) : valid_dirs[m] \notin S]
        rights == {d \in ds : d /= direction /\ is_right_turn(direction, d)}
        lefts == {d \in ds : d /= direction /\ ~is_right_turn(direction, d)}
        straight == direction \in ds
        right_opt == IF rights = {} THEN {} ELSE {LastOf(rights)}
        left_opt == IF lefts = {} THEN {} ELSE {LastOf(lefts)}
    IN  IF straight
        THEN IF right_opt = {} /\ left_opt = {}
             THEN {direction}
             ELSE {direction} \cup right_opt \cup left_opt
        ELSE right_opt \cup left_opt

\* A heading update that keeps the entry heading when the car has left the
\* intersection.
_update_direction_keeps_entry(self, other_cars) ==
    LET allowed_dirs == get_allowed_directions(self.x, self.y)
        is_in_intersection == is_intersection(self.x, self.y)
        entry == IF is_in_intersection
                 THEN IF self.entry_direction = NoDirection
                      THEN self.direction
                      ELSE self.entry_direction
                 ELSE self.entry_direction
        s == [self EXCEPT !.entry_direction = entry]
        NotEntryUTurn(d) == ~is_opposite(d, entry)
        NotUTurn(d) == ~is_opposite(d, s.direction)
        NotBlocked(d) == ~occupied_by_other(s, other_cars, s.x + d[1], s.y + d[2])
        f1 == IF entry /= NoDirection /\ SelectSeq(allowed_dirs, NotEntryUTurn) /= <<>>
              THEN SelectSeq(allowed_dirs, NotEntryUTurn)
              ELSE allowed_dirs
        f2 == IF Len(f1) > 1 /\ SelectSeq(f1, NotUTurn) /= <<>>
              THEN SelectSeq(f1, NotUTurn)
              ELSE f1
        valid_dirs == IF Len(f2) > 1 /\ SelectSeq(f2, NotBlocked) /= <<>>
                      THEN SelectSeq(f2, NotBlocked)
                      ELSE f2
    IN  IF allowed_dirs = <<>> THEN {s}
        ELSE IF Len(valid_dirs) > 1
             THEN {[s EXCEPT !.direction = d] : d \in turn_choices(s.direction, valid_dirs)}
             ELSE IF Len(valid_dirs) = 1
                  THEN {[s EXCEPT !.direction = valid_dirs[1]]}
                  ELSE {s}

\* Returns the set of cars the call can leave behind (one per random draw).
_update_direction_at_intersection(self, other_cars) ==
    LET allowed_dirs == get_allowed_directions(self.x, self.y)
        is_in_intersection == is_intersection(self.x, self.y)
        entry == IF is_in_intersection
                 THEN IF self.entry_direction = NoDirection
                      THEN self.direction
                      ELSE self.entry_direction
                 ELSE NoDirection
        s == [self EXCEPT !.entry_direction = entry]
        NotEntryUTurn(d) == ~is_opposite(d, entry)
        NotUTurn(d) == ~is_opposite(d, s.direction)
        NotBlocked(d) == ~occupied_by_other(s, other_cars, s.x + d[1], s.y + d[2])
        f1 == IF entry /= NoDirection /\ SelectSeq(allowed_dirs, NotEntryUTurn) /= <<>>
              THEN SelectSeq(allowed_dirs, NotEntryUTurn)
              ELSE allowed_dirs
        f2 == IF Len(f1) > 1 /\ SelectSeq(f1, NotUTurn) /= <<>>
              THEN SelectSeq(f1, NotUTurn)
              ELSE f1
        valid_dirs == IF Len(f2) > 1 /\ SelectSeq(f2, NotBlocked) /= <<>>
                      THEN SelectSeq(f2, NotBlocked)
                      ELSE f2
    IN  IF allowed_dirs = <<>> THEN {s}
        ELSE IF Len(valid_dirs) > 1
             THEN {[s EXCEPT !.direction = d] : d \in turn_choices(s.direction, valid_dirs)}
             ELSE IF Len(valid_dirs) = 1
                  THEN {[s EXCEPT !.direction = valid_dirs[1]]}
                  ELSE {s}

\* The cell to the car's right, where its approach light stands.
light_check_cell(self) ==
    IF self.direction = SOUTH THEN <<self.x - 1, self.y>>
    ELSE IF self.direction = NORTH THEN <<self.x + 1, self.y>>
    ELSE IF self.direction = EAST THEN <<self.x, self.y + 1>>
    ELSE IF self.direction = WEST THEN <<self.x, self.y - 1>>
    ELSE <<-1, -1>>

\* "for tl in traffic_lights: if tl.x == check_x and tl.y == check_y: break":
\* the index of the first light at the cell, 0 for None.
find_light(lights, cell) ==
    LET at == {k \in 1..Len(lights) : lights[k].x = cell[1] /\ lights[k].y = cell[2]}
    IN  IF at = {} THEN 0 ELSE CHOOSE k \in at : \A m \in at : k <= m

\* A signal gate that lets a car through on Red and stops it on Green.
red_light_ahead_inverted(self, lights) ==
    LET k == find_light(lights, light_check_cell(self))
    IN  k /= 0 /\ is_green(lights[k])

red_light_ahead(self, lights) ==
    LET k == find_light(lights, light_check_cell(self))
    IN  k /= 0 /\ is_red(lights[k])

\* A conflict gate that looks only at the intersection the car is about to
\* enter, not at every Intersection cell of the map.
intersection_conflict_same_block(self, other_cars) ==
    \E j \in 1..Len(other_cars) :
        /\ other_cars[j].id /= self.id
        /\ is_intersection(other_cars[j].x, other_cars[j].y)
        /\ other_cars[j].x - (self.x + self.direction[1]) \in -1..1
        /\ other_cars[j].y - (self.y + self.direction[2]) \in -1..1
        /\ _is_conflicting_direction(self, other_cars[j].direction)

\* Gate 2b: some other car in an Intersection cell, anywhere on the map,
\* heads across this car's heading.
intersection_conflict(self, other_cars) ==
    \E j \in 1..Len(other_cars) :
        /\ other_cars[j].id /= self.id
        /\ is_intersection(other_cars[j].x, other_cars[j].y)
        /\ _is_conflicting_direction(self, other_cars[j].direction)

\* A following gate whose give-way exception is in force from the second
\* tick in the intersection on.
blocked_by_car_early_exit(self, other_cars, next_x, next_y, currently_in_intersection) ==
    \E j \in 1..Len(other_cars) :
        /\ other_cars[j].id /= self.id
        /\ other_cars[j].x = next_x /\ other_cars[j].y = next_y
        /\ ~(/\ currently_in_intersection
             /\ self.ticks_in_intersection > 1
             /\ ~is_intersection(other_cars[j].x, other_cars[j].y))

\* Gate 3: some car on the next cell stops this one; a car held in an
\* intersection for more than 3 ticks ignores occupants outside of it.
blocked_by_car(self, other_cars, next_x, next_y, currently_in_intersection) ==
    \E j \in 1..Len(other_cars) :
        /\ other_cars[j].id /= self.id
        /\ other_cars[j].x = next_x /\ other_cars[j].y = next_y
        /\ ~(/\ currently_in_intersection
             /\ self.ticks_in_intersection > 3
             /\ ~is_intersection(other_cars[j].x, other_cars[j].y))

\* Gate 4: the alternative headings a car stuck in an intersection may take.
escape_dirs(self, other_cars) ==
    LET allowed_dirs == get_allowed_directions(self.x, self.y)
        Clear(d) == /\ d /= self.direction
                    /\ ~occupied_by_other(self, other_cars, self.x + d[1], self.y + d[2])
                    /\ is_road(self.x + d[1], self.y + d[2])
    IN  SelectSeq(allowed_dirs, Clear)

\* A restart delay that runs down two ticks at a time.
still_restarting_two_at_a_time(self) ==
    [self EXCEPT !.restart_delay_counter = @ - 2, !.waiting = TRUE]

\* The restart-delay gate of Car.move: one tick of the delay runs down and
\* the car stays a waiting car; nothing else of the car is touched.
still_restarting(self) ==
    [self EXCEPT !.restart_delay_counter = @ - 1, !.waiting = TRUE]

\* A move whose conflict gate refuses the car without raising its waiting
\* flag.
move_silent_conflict_gate(self, lights, other_cars, delay) ==
    LET next_x == self.x + self.direction[1]
        next_y == self.y + self.direction[2]
        currently_in_intersection == is_intersection(self.x, self.y)
        s == [self EXCEPT !.ticks_in_intersection =
                  IF currently_in_intersection THEN @ + 1 ELSE 0]
        next_is_intersection == is_intersection(next_x, next_y)
    IN  IF self.restart_delay_counter > 0
        THEN {still_restarting(self)}
        ELSE IF ~in_bounds(next_x, next_y)
        THEN {[s EXCEPT !.x = next_x, !.y = next_y]}
        ELSE IF ~is_road(next_x, next_y)
        THEN {s}
        ELSE IF next_is_intersection /\ red_light_ahead(s, lights)
        THEN {[s EXCEPT !.waiting = TRUE, !.was_waiting = TRUE]}
        ELSE IF /\ next_is_intersection
                /\ ~currently_in_intersection
                /\ intersection_conflict(s, other_cars)
        THEN {s}
        ELSE IF blocked_by_car(s, other_cars, next_x, next_y, currently_in_intersection)
        THEN {[s EXCEPT !.waiting = TRUE, !.was_waiting = TRUE]}
        ELSE IF /\ currently_in_intersection
                /\ s.ticks_in_intersection > 5
                /\ escape_dirs(s, other_cars) /= <<>>
        THEN LET alt_dir == escape_dirs(s, other_cars)[1]
             IN  {[s EXCEPT !.direction = alt_dir,
                            !.x = s.x + alt_dir[1], !.y = s.y + alt_dir[2],
                            !.waiting = FALSE, !.ticks_in_intersection = 0]}
        ELSE IF s.was_waiting
        THEN {[s EXCEPT !.restart_delay_counter = delay,
                        !.was_waiting = FALSE, !.waiting = TRUE]}
        ELSE _update_direction_at_intersection(
                 [s EXCEPT !.x = next_x, !.y = next_y, !.waiting = FALSE],
                 other_cars)

\* Car.move: the set of cars one call can leave behind.  other_cars is the
\* simulation's own list, so it shows the moves already made this tick.
move(self, lights, other_cars, delay) ==
    LET next_x == self.x + self.direction[1]
        next_y == self.y + self.direction[2]
        currently_in_intersection == is_intersection(self.x, self.y)
        s == [self EXCEPT !.ticks_in_intersection =
                  IF currently_in_intersection THEN @ + 1 ELSE 0]
        next_is_intersection == is_intersection(next_x, next_y)
    IN  IF self.restart_delay_counter > 0
        THEN {still_restarting(self)}
        ELSE IF ~in_bounds(next_x, next_y)
        THEN {[s EXCEPT !.x = next_x, !.y = next_y]}
        ELSE IF ~is_road(next_x, next_y)
        THEN {s}
        ELSE IF next_is_intersection /\ red_light_ahead(s, lights)
        THEN {[s EXCEPT !.waiting = TRUE, !.was_waiting = TRUE]}
        ELSE IF /\ next_is_intersection
                /\ ~currently_in_intersection
                /\ intersection_conflict(s, other_cars)
        THEN {[s EXCEPT !.waiting = TRUE]}
        ELSE IF blocked_by_car(s, other_cars, next_x, next_y, currently_in_intersection)
        THEN {[s EXCEPT !.waiting = TRUE, !.was_waiting = TRUE]}
        ELSE IF /\ currently_in_intersection
                /\ s.ticks_in_intersection > 5
                /\ escape_dirs(s, other_cars) /= <<>>
        THEN LET alt_dir == escape_dirs(s, other_cars)[1]
             IN  {[s EXCEPT !.direction = alt_dir,
                            !.x = s.x + alt_dir[1], !.y = s.y + alt_dir[2],
                            !.waiting = FALSE, !.ticks_in_intersection = 0]}
        ELSE IF s.was_waiting
        THEN {[s EXCEPT !.restart_delay_counter = delay,
                        !.was_waiting = FALSE, !.waiting = TRUE]}
        ELSE _update_direction_at_intersection(
                 [s EXCEPT !.x = next_x, !.y = next_y, !.waiting = FALSE],
                 other_cars)

\* A wait counter that is never reset when the car moves.
increment_wait_time_no_reset(self) ==
    IF self.waiting
    THEN [self EXCEPT !.total_wait_time = @ + 1, !.current_wait_time = @ + 1]
    ELSE self

\* A cumulative counter that is overwritten with the consecutive one.
increment_wait_time_overwrite(self) ==
    IF self.waiting
    THEN [self EXCEPT !.total_wait_time = self.current_wait_time + 1,
                      !.current_wait_time = @ + 1]
    ELSE [self EXCEPT !.current_wait_time = 0]

increment_wait_time(self) ==
    IF self.waiting
    THEN [self EXCEPT !.total_wait_time = @ + 1, !.current_wait_time = @ + 1]
    ELSE [self EXCEPT !.current_wait_time = 0]

(***************************************************************************)
(* traffic_sim/simulation.py                                               *)
(***************************************************************************)
\* random.choice(self.map.spawn_points): the generator hands out the element
\* at its current position and moves on by its stride.
random_choice(state) == spawn_points[state + 1]

random_advance(state, stride) == (state + stride) % Len(spawn_points)

\* A spawn that falls back on the first unoccupied spawn point when the
\* point drawn is occupied.
spawn_car_first_free(cs, spawned, state, stride) ==
    IF Len(cs) >= MAX_CARS
    THEN [cars |-> cs, spawned |-> spawned, rand |-> state]
    ELSE LET Free(p) == ~\E j \in 1..Len(cs) : cs[j].x = p[1] /\ cs[j].y = p[2]
             drawn == random_choice(state)
             free_points == SelectSeq(spawn_points, Free)
         IN  IF Free(drawn) \/ free_points /= <<>>
             THEN LET spawn_point == IF Free(drawn) THEN drawn ELSE free_points[1]
                  IN  [cars |-> Append(cs, Car(spawned + 1, spawn_point[1],
                                               spawn_point[2], spawn_point[3])),
                       spawned |-> spawned + 1,
                       rand |-> random_advance(state, stride)]
             ELSE [cars |-> cs, spawned |-> spawned,
                   rand |-> random_advance(state, stride)]

\* A population cap that lets one car too many in.
spawn_car_cap_off_by_one(cs, spawned, state, stride) ==
    IF Len(cs) > MAX_CARS
    THEN [cars |-> cs, spawned |-> spawned, rand |-> state]
    ELSE LET spawn_point == random_choice(state)
             occupied == \E j \in 1..Len(cs) :
                             cs[j].x = spawn_point[1] /\ cs[j].y = spawn_point[2]
         IN  IF ~occupied
             THEN [cars |-> Append(cs, Car(spawned + 1, spawn_point[1],
                                           spawn_point[2], spawn_point[3])),
                   spawned |-> spawned + 1,
                   rand |-> random_advance(state, stride)]
             ELSE [cars |-> cs, spawned |-> spawned,
                   rand |-> random_advance(state, stride)]

\* RESTART_DELAY, which car.py imports from constants.py: a fixed number of
\* ticks, the same for every car of a run.
RESTART_DELAY == restart_delay

\* A spawn attempt that counts the car even when the spawn point is taken.
spawn_car_counts_attempts(cs, spawned, state, stride) ==
    IF Len(cs) >= MAX_CARS
    THEN [cars |-> cs, spawned |-> spawned, rand |-> state]
    ELSE LET spawn_point == random_choice(state)
             occupied == \E j \in 1..Len(cs) :
                             cs[j].x = spawn_point[1] /\ cs[j].y = spawn_point[2]
         IN  IF ~occupied
             THEN [cars |-> Append(cs, Car(spawned + 1, spawn_point[1],
                                           spawn_point[2], spawn_point[3])),
                   spawned |-> spawned + 1,
                   rand |-> random_advance(state, stride)]
             ELSE [cars |-> cs, spawned |-> spawned + 1,
                   rand |-> random_advance(state, stride)]

\* A spawn attempt that places the car without looking at the spawn point.
spawn_car_unchecked(cs, spawned, state, stride) ==
    IF Len(cs) >= MAX_CARS
    THEN [cars |-> cs, spawned |-> spawned, rand |-> state]
    ELSE LET spawn_point == random_choice(state)
         IN  [cars |-> Append(cs, Car(spawned + 1, spawn_point[1],
                                      spawn_point[2], spawn_point[3])),
              spawned |-> spawned + 1,
              rand |-> random_advance(state, stride)]

\* Simulation.spawn_car on the car list cs: the new list, the new count of
\* spawned cars and the new state of the random generator.
spawn_car(cs, spawned, state, stride) ==
    IF Len(cs) >= MAX_CARS
    THEN [cars |-> cs, spawned |-> spawned, rand |-> state]
    ELSE LET spawn_point == random_choice(state)
             occupied == \E j \in 1..Len(cs) :
                             cs[j].x = spawn_point[1] /\ cs[j].y = spawn_point[2]
         IN  IF ~occupied
             THEN [cars |-> Append(cs, Car(spawned + 1, spawn_point[1],
                                           spawn_point[2], spawn_point[3])),
                   spawned |-> spawned + 1,
                   rand |-> random_advance(state, stride)]
             ELSE [cars |-> cs, spawned |-> spawned,
                   rand |-> random_advance(state, stride)]

\* A resolution that walks the container from its last car to its first.
RECURSIVE move_cars_reversed(_, _, _, _)
move_cars_reversed(cs, i, lights, delay) ==
    IF i > Len(cs) THEN {cs}
    ELSE LET r == Len(cs) + 1 - i
         IN  UNION {move_cars_reversed([cs EXCEPT ![r] = increment_wait_time(c)],
                                       i + 1, lights, delay) :
                    c \in move(cs[r], lights, cs, delay)}

\* Step 3 of Simulation.step, from the i-th car on: every car moves against
\* the list as the earlier cars left it, then counts its wait.
RECURSIVE move_cars(_, _, _, _)
move_cars(cs, i, lights, delay) ==
    IF i > Len(cs) THEN {cs}
    ELSE UNION {move_cars([cs EXCEPT ![i] = increment_wait_time(c)],
                          i + 1, lights, delay) :
                c \in move(cs[i], lights, cs, delay)}

\* A removal test that keeps a car on the ring of cells around the map.
on_map_with_margin(car) ==
    /\ car.x \in -1..width
    /\ car.y \in -1..height

on_map(car) == in_bounds(car.x, car.y)

off_map(car) == ~in_bounds(car.x, car.y)

\* A total that sums the consecutive-wait counters instead.
RECURSIVE sum_total_wait_consecutive(_)
sum_total_wait_consecutive(cs) ==
    IF cs = <<>> THEN 0
    ELSE Head(cs).current_wait_time + sum_total_wait_consecutive(Tail(cs))

RECURSIVE sum_total_wait(_)
sum_total_wait(cs) ==
    IF cs = <<>> THEN 0 ELSE Head(cs).total_wait_time + sum_total_wait(Tail(cs))

RECURSIVE sum_current_wait(_)
sum_current_wait(cs) ==
    IF cs = <<>> THEN 0 ELSE Head(cs).current_wait_time + sum_current_wait(Tail(cs))

RECURSIVE sum_seq(_)
sum_seq(q) == IF q = <<>> THEN 0 ELSE Head(q) + sum_seq(Tail(q))

\* A maximum that only looks at the first chain.
max_seq_first_only(q) == Head(q)

RECURSIVE max_seq(_)
max_seq(q) ==
    IF Len(q) = 1 THEN Head(q)
    ELSE LET m == max_seq(Tail(q)) IN IF Head(q) > m THEN Head(q) ELSE m

is_waiting(car) == car.waiting

seq_set(q) == {q[k] : k \in 1..Len(q)}

\* A walk that also takes cars some chain already holds.
RECURSIVE walk_back_revisits(_, _, _, _, _, _)
walk_back_revisits(cs, visited, direction, check_x, check_y, chain) ==
    LET found == {j \in 1..Len(cs) :
                     /\ cs[j].id \notin seq_set(chain)
                     /\ cs[j].waiting
                     /\ cs[j].x = check_x /\ cs[j].y = check_y
                     /\ cs[j].direction = direction}
    IN  IF found = {} THEN chain
        ELSE LET j == CHOOSE k \in found : \A m \in found : k <= m
             IN  walk_back_revisits(cs, visited \cup {cs[j].id}, direction,
                                    check_x - direction[1], check_y - direction[2],
                                    Append(chain, cs[j].id))

\* The inner "while True" of _calculate_queue_lengths: extend the chain with
\* the first unvisited waiting car of the same heading on the checked cell.
RECURSIVE walk_back(_, _, _, _, _, _)
walk_back(cs, visited, direction, check_x, check_y, chain) ==
    LET found == {j \in 1..Len(cs) :
                     /\ cs[j].id \notin visited
                     /\ cs[j].waiting
                     /\ cs[j].x = check_x /\ cs[j].y = check_y
                     /\ cs[j].direction = direction}
    IN  IF found = {} THEN chain
        ELSE LET j == CHOOSE k \in found : \A m \in found : k <= m
             IN  walk_back(cs, visited \cup {cs[j].id}, direction,
                           check_x - direction[1], check_y - direction[2],
                           Append(chain, cs[j].id))

\* The chains of _calculate_queue_lengths from the i-th car on, each chain
\* the ids of its cars, front car first.
RECURSIVE queue_chains(_, _, _)
queue_chains(cs, i, visited) ==
    IF i > Len(cs) THEN <<>>
    ELSE IF ~cs[i].waiting \/ cs[i].id \in visited
    THEN queue_chains(cs, i + 1, visited)
    ELSE LET car == cs[i]
             chain == walk_back(cs, visited \cup {car.id}, car.direction,
                                car.x - car.direction[1], car.y - car.direction[2],
                                <<car.id>>)
         IN  <<chain>> \o queue_chains(cs, i + 1, visited \cup seq_set(chain))

_calculate_queue_lengths(cs) ==
    IF cs = <<>> THEN <<>>
    ELSE LET chains == queue_chains(cs, 1, {})
         IN  [k \in 1..Len(chains) |-> Len(chains[k])]

\* A history that never evicts a sample.
deque_append_unbounded(q, v) == Append(q, v)

\* deque(maxlen = 10 * FPS).append
deque_append(q, v) ==
    IF Len(q) >= 10 * FPS THEN Append(Tail(q), v) ELSE Append(q, v)

\* A quotient a / b, kept as the pair of its terms.
ratio(a, b) == <<a, b>>

get_total_wait_time == total_wait_time_all_cars + sum_total_wait(cars)

\* Car.get_state
car_get_state(car) ==
    [id |-> car.id, x |-> car.x, y |-> car.y, direction |-> car.direction,
     waiting |-> car.waiting, total_wait_time |-> car.total_wait_time,
     current_wait_time |-> car.current_wait_time]

\* Simulation.get_state: the entries that describe the tick, the cars and the
\* lights.
get_state ==
    [tick |-> tick_count,
     cars |-> [k \in 1..Len(cars) |-> car_get_state(cars[k])],
     lights |-> [k \in 1..Len(traffic_lights) |->
                   <<traffic_lights[k].x, traffic_lights[k].y,
                     traffic_lights[k].state>>],
     total_wait_time |-> get_total_wait_time,
     total_cars_spawned |-> total_cars_spawned]

get_current_cars_waiting == Len(SelectSeq(cars, is_waiting))

(***************************************************************************)
(* ai_controller/traffic_env.py: the state of a TrafficEnv                 *)
(***************************************************************************)
\* The intersections the environment controls.
env_intersections == {0, 1}

min_phase_time == 30

\* The tick count at which TrafficEnv.step reports the episode done.
max_episode_length == 2000

\* TrafficEnv.__init__ with the default spawn_rate = None.  returned, done,
\* applied, actions, steps and episodes record the last call: whether it
\* returned, the done flag it returned, the phase handed to the simulation
\* for each intersection without an exception, its argument, and the calls
\* of step and of reset so far.
TrafficEnv ==
    [spawn_rate |-> None,
     current_phases |-> [i \in env_intersections |-> 0],
     time_since_last_switch |-> [i \in env_intersections |-> 0],
     last |-> "init", returned |-> TRUE, done |-> FALSE,
     applied |-> [i \in env_intersections |-> None],
     actions |-> <<>>, steps |-> 0, episodes |-> 0]

\* The state after "from traffic_sim.simulation import Simulation" and
\* "Simulation()".  error is the exception the last call raised: here the one
\* of loading the modules.  The ticks that follow are those of the engine
\* with RESTART_DELAY bound.
Init ==
    /\ tick_count = 0
    /\ cars = <<>>
    /\ traffic_lights = _init_traffic_lights
    /\ total_wait_time_all_cars = 0
    /\ total_cars_spawned = 0
    /\ spawn_rate = SPAWN_RATE
    /\ wait_time_history = <<>>
    /\ queue_length_history = <<>>
    /\ max_queue_length = 0
    /\ restart_delay \in 1..MaxRestartDelay
    /\ rand_state \in 0..(Len(spawn_points) - 1)
    /\ rand_stride \in 0..MaxStride
    /\ last_call = [op |-> "init", id |-> -1, phase |-> -1]
    /\ error = import_car
    /\ phase_commanded = {}
    /\ snapshot = [taken |-> FALSE, tick |-> 0, ids |-> <<>>, state |-> <<>>,
                   report |-> <<>>]
    /\ waiting_pairs = 0
    /\ refused = {}
    /\ env = TrafficEnv
    /\ query = [op |-> "none", x |-> 0, y |-> 0, cell |-> None,
                road |-> FALSE, intersection |-> FALSE,
                allowed |-> <<>>]

\* The ids of the cars a gate of Car.move refused in the tick that took the
\* list before to the list after: no restart delay was pending, the car
\* stayed where it was and no restart delay was armed.
refused_by_gate(before, after) ==
    {before[i].id : i \in {k \in 1..Len(before) :
        /\ before[k].restart_delay_counter = 0
        /\ after[k].restart_delay_counter = 0
        /\ <<after[k].x, after[k].y>> = <<before[k].x, before[k].y>>}}

\* A tick that resolves the cars against the lights as they were before the
\* tick's update.
step_cars_before_lights ==
    /\ LET tick == tick_count + 1
           lights == [k \in 1..Len(traffic_lights) |-> update(traffic_lights[k])]
           spawned == IF tick % spawn_rate = 0
                      THEN spawn_car(cars, total_cars_spawned, rand_state, rand_stride)
                      ELSE [cars |-> cars, spawned |-> total_cars_spawned,
                            rand |-> rand_state]
       IN  \E moved \in move_cars(spawned.cars, 1, traffic_lights, RESTART_DELAY) :
             LET cars_to_remove == SelectSeq(moved, off_map)
                 kept == SelectSeq(moved, on_map)
                 waiting_cars == SelectSeq(kept, is_waiting)
                 avg_wait_this_tick ==
                     IF Len(waiting_cars) > 0
                     THEN ratio(sum_current_wait(waiting_cars), Len(waiting_cars))
                     ELSE ratio(0, 1)
                 queue_lengths == _calculate_queue_lengths(kept)
             IN  /\ tick_count' = tick
                 /\ traffic_lights' = lights
                 /\ total_cars_spawned' = spawned.spawned
                 /\ rand_state' = spawned.rand
                 /\ cars' = kept
                 /\ total_wait_time_all_cars' =
                        total_wait_time_all_cars + sum_total_wait(cars_to_remove)
                 /\ wait_time_history' = deque_append(wait_time_history, avg_wait_this_tick)
                 /\ waiting_pairs' = waiting_pairs + Len(SelectSeq(moved, is_waiting))
                 /\ refused' = refused_by_gate(spawned.cars, moved)
                 /\ IF queue_lengths /= <<>>
                    THEN /\ max_queue_length' =
                              IF max_seq(queue_lengths) > max_queue_length
                              THEN max_seq(queue_lengths) ELSE max_queue_length
                         /\ queue_length_history' =
                              deque_append(queue_length_history,
                                           ratio(sum_seq(queue_lengths), Len(queue_lengths)))
                    ELSE /\ max_queue_length' = max_queue_length
                         /\ queue_length_history' =
                              deque_append(queue_length_history, ratio(0, 1))
    /\ last_call' = [op |-> "step", id |-> -1, phase |-> -1]
    /\ error' = "none"
    /\ UNCHANGED <<spawn_rate, restart_delay, rand_stride, phase_commanded,
                   snapshot, query>>

\* Simulation.step, run on the traffic lights tls.  waiting_pairs is a history variable: the number of
\* (car, tick) pairs so far in which increment_wait_time found the car
\* waiting, counted over every car of the tick, removed or not.  refused is
\* a history variable too: the cars a gate refused in this tick.
step_after(tls) ==
    /\ LET tick == tick_count + 1
           lights == [k \in 1..Len(tls) |-> update(tls[k])]
           spawned == IF tick % spawn_rate = 0
                      THEN spawn_car(cars, total_cars_spawned, rand_state, rand_stride)
                      ELSE [cars |-> cars, spawned |-> total_cars_spawned,
                            rand |-> rand_state]
       IN  \E moved \in move_cars(spawned.cars, 1, lights, RESTART_DELAY) :
             LET cars_to_remove == SelectSeq(moved, off_map)
                 kept == SelectSeq(moved, on_map)
                 waiting_cars == SelectSeq(kept, is_waiting)
                 avg_wait_this_tick ==
                     IF Len(waiting_cars) > 0
                     THEN ratio(sum_current_wait(waiting_cars), Len(waiting_cars))
                     ELSE ratio(0, 1)
                 queue_lengths == _calculate_queue_lengths(kept)
             IN  /\ tick_count' = tick
                 /\ traffic_lights' = lights
                 /\ total_cars_spawned' = spawned.spawned
                 /\ rand_state' = spawned.rand
                 /\ cars' = kept
                 /\ total_wait_time_all_cars' =
                        total_wait_time_all_cars + sum_total_wait(cars_to_remove)
                 /\ wait_time_history' = deque_append(wait_time_history, avg_wait_this_tick)
                 /\ waiting_pairs' = waiting_pairs + Len(SelectSeq(moved, is_waiting))
                 /\ refused' = refused_by_gate(spawned.cars, moved)
                 /\ IF queue_lengths /= <<>>
                    THEN /\ max_queue_length' =
                              IF max_seq(queue_lengths) > max_queue_length
                              THEN max_seq(queue_lengths) ELSE max_queue_length
                         /\ queue_length_history' =
                              deque_append(queue_length_history,
                                           ratio(sum_seq(queue_lengths), Len(queue_lengths)))
                    ELSE /\ max_queue_length' = max_queue_length
                         /\ queue_length_history' =
                              deque_append(queue_length_history, ratio(0, 1))
    /\ last_call' = [op |-> "step", id |-> -1, phase |-> -1]
    /\ error' = "none"
    /\ UNCHANGED <<spawn_rate, restart_delay, rand_stride, phase_commanded,
                   snapshot, query>>

\* Simulation.step on the lights as they stand.
step ==
    step_after(traffic_lights)

\* A tick of the free-running simulation (main.py, test_headless.py).
Step == tick_count < MaxTick /\ step /\ UNCHANGED env

\* TrafficEnv.__init__ / reset: "self.sim.spawn_rate = spawn_rate" on the
\* freshly constructed simulation.
SetSpawnRate(rate) ==
    /\ tick_count = 0
    /\ last_call.op = "init"
    /\ spawn_rate' = rate
    /\ last_call' = [op |-> "spawn_rate", id |-> -1, phase |-> -1]
    /\ UNCHANGED <<tick_count, cars, traffic_lights, total_wait_time_all_cars,
                   total_cars_spawned, wait_time_history, queue_length_history,
                   max_queue_length, restart_delay, rand_state, rand_stride,
                   error, phase_commanded, snapshot, waiting_pairs, query, refused, env>>

\* The first branch of "car.direction == 'NORTH' and ..." and its siblings: a
\* heading is a tuple, the name a str, and a tuple never equals a str.
direction_is(direction, name) == FALSE

\* Simulation.get_intersection_queues on the car list cs.
get_intersection_queues(cs, intersection_id) ==
    IF intersection_id \notin DOMAIN intersections THEN <<0, 0, 0, 0>>
    ELSE LET bounds == intersections[intersection_id].bounds
             x_min == bounds[1]
             x_max == bounds[2]
             y_min == bounds[3]
             y_max == bounds[4]
             Nb(car) == /\ car.waiting
                        /\ direction_is(car.direction, "NORTH") /\ car.x = x_max
                        /\ car.y > y_max /\ car.y <= y_max + 5
             Sb(car) == /\ car.waiting /\ ~Nb(car)
                        /\ direction_is(car.direction, "SOUTH") /\ car.x = x_min
                        /\ car.y < y_min /\ car.y >= y_min - 5
             Eb(car) == /\ car.waiting /\ ~Nb(car) /\ ~Sb(car)
                        /\ direction_is(car.direction, "EAST") /\ car.y = y_max
                        /\ car.x < x_min /\ car.x >= x_min - 5
             Wb(car) == /\ car.waiting /\ ~Nb(car) /\ ~Sb(car) /\ ~Eb(car)
                        /\ direction_is(car.direction, "WEST") /\ car.y = y_min
                        /\ car.x > x_max /\ car.x <= x_max + 5
         IN  << Len(SelectSeq(cs, Nb)), Len(SelectSeq(cs, Sb)),
                Len(SelectSeq(cs, Eb)), Len(SelectSeq(cs, Wb)) >>

\* A phase command without the test for unknown ids: the lookup of an
\* unknown id in the intersections raises.
set_intersection_light_phase_unguarded(tls, intersection_id, phase) ==
    IF intersection_id \notin DOMAIN intersections
    THEN [lights |-> tls, error |-> "KeyError"]
    ELSE IF phase \in {0, 1} /\ "set_state" \notin TrafficLightMethods
    THEN [lights |-> tls, error |-> "AttributeError"]
    ELSE IF "set_manual_mode" \notin TrafficLightMethods
    THEN [lights |-> tls, error |-> "AttributeError"]
    ELSE [lights |-> tls, error |-> "none"]

\* Simulation.set_intersection_light_phase on the lights tls: the lights it
\* leaves behind and the exception it raises ("none" when it returns).
\* "lights[0].set_state(...)" and "l.set_manual_mode(True)" look up methods
\* that TrafficLight must define.
set_intersection_light_phase(tls, intersection_id, phase) ==
    IF intersection_id \notin DOMAIN intersections
    THEN [lights |-> tls, error |-> "none"]
    ELSE IF phase \in {0, 1} /\ "set_state" \notin TrafficLightMethods
    THEN [lights |-> tls, error |-> "AttributeError"]
    ELSE IF "set_manual_mode" \notin TrafficLightMethods
    THEN [lights |-> tls, error |-> "AttributeError"]
    ELSE [lights |-> tls, error |-> "none"]

\* A call of set_intersection_light_phase by the control loop.
SetIntersectionLightPhase(intersection_id, phase) ==
    /\ \/ intersection_id \notin DOMAIN intersections
       \/ intersection_id \in phase_commanded
       \/ Cardinality(phase_commanded) < MaxCommanded
    /\ LET r == set_intersection_light_phase(traffic_lights, intersection_id, phase)
       IN  /\ traffic_lights' = r.lights
           /\ error' = r.error
    /\ last_call' = [op |-> "set_phase", id |-> intersection_id, phase |-> phase]
    /\ phase_commanded' =
           IF intersection_id \in DOMAIN intersections
           THEN phase_commanded \cup {intersection_id}
           ELSE phase_commanded
    /\ UNCHANGED <<tick_count, cars, total_wait_time_all_cars, total_cars_spawned,
                   spawn_rate, wait_time_history, queue_length_history,
                   max_queue_length, restart_delay, rand_state, rand_stride,
                   snapshot, waiting_pairs, query, refused, env>>

\* The intersection ids and phases the control loop is given to call with:
\* the two known ids and an unknown one, the two phases and an invalid one.
IntersectionIds == {0, 1, 2}

PhaseValues == {0, 1, 2}

\* A tick of the simulation driven by the control loop (TrafficEnv.step).
ControlStep == tick_count < MaxControlTick /\ step /\ UNCHANGED env

Next ==
    \/ Step
    \/ \E rate \in 1..MaxSpawnRate : SetSpawnRate(rate)

ControlNext ==
    \/ ControlStep
    \/ \E rate \in 1..MaxSpawnRate : SetSpawnRate(rate)
    \/ \E id \in IntersectionIds, phase \in PhaseValues :
           SetIntersectionLightPhase(id, phase)

\* The control loop of a TrafficEnv constructed without a spawn rate: the
\* simulation keeps SPAWN_RATE.
PhaseNext ==
    \/ ControlStep
    \/ \E id \in IntersectionIds, phase \in PhaseValues :
           SetIntersectionLightPhase(id, phase)

\* Everything the coming ticks depend on: the cars without their identity
\* and wait statistics, the lights, the random generator and the position of
\* the tick count in the spawn interval.
behaviour_state ==
    [cars |-> [k \in 1..Len(cars) |->
                  [x |-> cars[k].x, y |-> cars[k].y,
                   direction |-> cars[k].direction,
                   waiting |-> cars[k].waiting,
                   entry_direction |-> cars[k].entry_direction,
                   ticks_in_intersection |-> cars[k].ticks_in_intersection,
                   restart_delay_counter |-> cars[k].restart_delay_counter,
                   was_waiting |-> cars[k].was_waiting]],
     lights |-> traffic_lights,
     rand |-> rand_state,
     spawn_phase |-> tick_count % spawn_rate]

\* An observer calls get_state and records the configuration of the
\* simulation at one tick.
TakeSnapshot ==
    /\ ~snapshot.taken
    /\ tick_count = SnapshotTick
    /\ snapshot' = [taken |-> TRUE, tick |-> tick_count,
                    ids |-> [k \in 1..Len(cars) |-> cars[k].id],
                    state |-> behaviour_state,
                    report |-> get_state]
    /\ UNCHANGED <<tick_count, cars, traffic_lights, total_wait_time_all_cars,
                   total_cars_spawned, spawn_rate, wait_time_history,
                   queue_length_history, max_queue_length, restart_delay,
                   rand_state, rand_stride, last_call, error, phase_commanded,
                   waiting_pairs, query, refused, env>>

\* A tick of a long free run.
ProgressStep == tick_count < MaxProgressTick /\ step /\ UNCHANGED env

ProgressNext ==
    \/ ProgressStep
    \/ \E rate \in 1..MaxSpawnRate : SetSpawnRate(rate)
    \/ TakeSnapshot

\* A caller asks the map about the cell (x, y): get_cell, is_road,
\* is_intersection and get_allowed_directions, with their answers.  The map is read-only, so one
\* question per behaviour shows every answer.
MapQuery(x, y) ==
    /\ query.op = "none"
    /\ query' = [op |-> "map", x |-> x, y |-> y, cell |-> get_cell(x, y),
                 road |-> is_road(x, y), intersection |-> is_intersection(x, y),
                 allowed |-> get_allowed_directions(x, y)]
    /\ UNCHANGED <<tick_count, cars, traffic_lights, total_wait_time_all_cars,
                   total_cars_spawned, spawn_rate, wait_time_history,
                   queue_length_history, max_queue_length, restart_delay,
                   rand_state, rand_stride, last_call, error, phase_commanded,
                   snapshot, waiting_pairs, refused, env>>

QueryCoordinates == (0 - MaxOutside)..(GRID_SIZE - 1 + MaxOutside)

MapNext == \E x \in QueryCoordinates, y \in QueryCoordinates : MapQuery(x, y)

(***************************************************************************)
(* ai_controller/traffic_env.py: reset, set_spawn_rate and step            *)
(***************************************************************************)
\* TrafficEnv.reset: a new Simulation, the configured spawn rate, phases and
\* switch timers back at 0; _get_state, which it returns, only reads.  The
\* random source is the interpreter's and is not renewed.
EnvReset ==
    /\ env.episodes < MaxEpisodes
    /\ tick_count' = 0
    /\ cars' = <<>>
    /\ traffic_lights' = _init_traffic_lights
    /\ total_wait_time_all_cars' = 0
    /\ total_cars_spawned' = 0
    /\ spawn_rate' = IF env.spawn_rate /= None THEN env.spawn_rate ELSE SPAWN_RATE
    /\ wait_time_history' = <<>>
    /\ queue_length_history' = <<>>
    /\ max_queue_length' = 0
    /\ last_call' = [op |-> "init", id |-> -1, phase |-> -1]
    /\ error' = "none"
    /\ phase_commanded' = {}
    /\ waiting_pairs' = 0
    /\ refused' = {}
    /\ env' = [env EXCEPT !.current_phases = [i \in env_intersections |-> 0],
                          !.time_since_last_switch = [i \in env_intersections |-> 0],
                          !.last = "reset", !.returned = TRUE, !.done = FALSE,
                          !.applied = [i \in env_intersections |-> None],
                          !.actions = <<>>, !.steps = 0,
                          !.episodes = @ + 1]
    /\ UNCHANGED <<restart_delay, rand_state, rand_stride, snapshot, query>>

\* TrafficEnv.set_spawn_rate.
EnvSetSpawnRate(rate) ==
    /\ env.spawn_rate /= rate
    /\ spawn_rate' = rate
    /\ env' = [env EXCEPT !.spawn_rate = rate, !.last = "set_spawn_rate",
                          !.returned = TRUE]
    /\ UNCHANGED <<tick_count, cars, traffic_lights, total_wait_time_all_cars,
                   total_cars_spawned, wait_time_history, queue_length_history,
                   max_queue_length, restart_delay, rand_state, rand_stride,
                   last_call, error, phase_commanded, snapshot, waiting_pairs,
                   query, refused>>

\* The loop "for i_id, action in actions.items()" of TrafficEnv.step from
\* the k-th item on: the environment and the lights it leaves, and the
\* exception that ended it, if any.  An exception of
\* set_intersection_light_phase leaves the loop before the switch timer of
\* that intersection is incremented.
RECURSIVE apply_actions(_, _, _, _)
apply_actions(e, tls, items, k) ==
    IF k > Len(items)
    THEN [env |-> e, lights |-> tls, error |-> "none", id |-> -1, phase |-> -1]
    ELSE LET i_id == items[k][1]
             action == items[k][2]
             e1 == IF /\ action /= e.current_phases[i_id]
                      /\ e.time_since_last_switch[i_id] >= min_phase_time
                   THEN [e EXCEPT !.current_phases[i_id] = action,
                                  !.time_since_last_switch[i_id] = 0]
                   ELSE e
             r == set_intersection_light_phase(tls, i_id, e1.current_phases[i_id])
         IN  IF r.error /= "none"
             THEN [env |-> e1, lights |-> r.lights, error |-> r.error,
                   id |-> i_id, phase |-> e1.current_phases[i_id]]
             ELSE apply_actions(
                      [e1 EXCEPT !.time_since_last_switch[i_id] = @ + 1,
                                 !.applied[i_id] = e1.current_phases[i_id]],
                      r.lights, items, k + 1)

\* TrafficEnv.step(actions), the dict given as the sequence of its items.
\* The reward is computed from getters that only read.
EnvStep(actions) ==
    /\ env.steps < MaxEnvSteps
    /\ LET r == apply_actions([env EXCEPT !.applied = [i \in env_intersections |-> None]],
                              traffic_lights, actions, 1)
       IN  IF r.error /= "none"
           THEN /\ env' = [r.env EXCEPT !.last = "step", !.returned = FALSE,
                                        !.done = FALSE, !.actions = actions,
                                        !.steps = @ + 1]
                /\ traffic_lights' = r.lights
                /\ error' = r.error
                /\ last_call' = [op |-> "set_phase", id |-> r.id, phase |-> r.phase]
                /\ UNCHANGED <<tick_count, cars, total_wait_time_all_cars,
                               total_cars_spawned, spawn_rate, wait_time_history,
                               queue_length_history, max_queue_length,
                               restart_delay, rand_state, rand_stride,
                               phase_commanded, snapshot, waiting_pairs, query,
                               refused>>
           ELSE /\ step_after(r.lights)
                /\ env' = [r.env EXCEPT !.last = "step", !.returned = TRUE,
                                        !.done = (tick_count' >= max_episode_length),
                                        !.actions = actions, !.steps = @ + 1]

\* The dicts handed to TrafficEnv.step: an action 0 or 1 for some of the
\* controlled intersections, in either order of insertion.
ActionDicts ==
    {<<>>}
    \cup {<< <<i, a>> >> : i \in env_intersections, a \in {0, 1}}
    \cup {<< <<i, a>>, <<j, b>> >> :
              <<i, j>> \in {<<0, 1>>, <<1, 0>>}, a \in {0, 1}, b \in {0, 1}}

EnvNext ==
    \/ EnvReset
    \/ \E rate \in 1..MaxSpawnRate : EnvSetSpawnRate(rate)
    \/ \E actions \in ActionDicts : EnvStep(actions)

Spec == Init /\ [][Next]_vars

MapSpec == Init /\ [][MapNext]_vars

ProgressSpec == Init /\ [][ProgressNext]_vars

ControlSpec == Init /\ [][ControlNext]_vars

PhaseSpec == Init /\ [][PhaseNext]_vars

EnvSpec == Init /\ [][EnvNext]_vars

(***************************************************************************)
(* Properties                                                              *)
(***************************************************************************)
\* A step of the behaviour that is one tick of Simulation.step.
IsTick == tick_count' = tick_count + 1

\* The cars that make an advance attempt in the coming tick: the live cars
\* and the car the tick spawns.
cars_in_tick ==
    IF (tick_count + 1) % spawn_rate = 0
    THEN spawn_car(cars, total_cars_spawned, rand_state, rand_stride).cars
    ELSE cars

next_cell(car) == <<car.x + car.direction[1], car.y + car.direction[2]>>

at_stop_line(car) ==
    /\ ~is_intersection(car.x, car.y)
    /\ is_intersection(next_cell(car)[1], next_cell(car)[2])

\* The cell to the right of a car, relative to its heading.
right_cell(car) == <<car.x - car.direction[2], car.y + car.direction[1]>>

approach_light_red(car, lights) ==
    \E k \in 1..Len(lights) :
        /\ <<lights[k].x, lights[k].y>> = right_cell(car)
        /\ lights[k].state = RED

\* C1: in every tick, a car outside any intersection whose destination is an
\* Intersection cell and whose approach light (at the cell to its right) is
\* Red after the tick's light update keeps its position, is not inside the
\* intersection at the end of the tick and has its waiting flag set.
C1_SignalGate ==
    [][IsTick =>
        \A i \in 1..Len(cars_in_tick) :
            LET c == cars_in_tick[i]
            IN  (at_stop_line(c) /\ approach_light_red(c, traffic_lights')) =>
                    \E j \in 1..Len(cars') :
                        /\ cars'[j].id = c.id
                        /\ cars'[j].x = c.x /\ cars'[j].y = c.y
                        /\ ~is_intersection(cars'[j].x, cars'[j].y)
                        /\ cars'[j].waiting]_vars

\* A car has been held at its stop line by a Red approach light.
C1_Witness ==
    \E i \in 1..Len(cars) :
        /\ at_stop_line(cars[i])
        /\ approach_light_red(cars[i], traffic_lights)
        /\ cars[i].waiting
        /\ cars[i].current_wait_time >= 1

\* The simulation is back in the configuration of the snapshot, and a car of
\* the snapshot still stands where it stood: every tick in between repeats
\* from here on, so that car never moves again.
stuck_forever ==
    /\ snapshot.taken
    /\ tick_count > snapshot.tick
    /\ behaviour_state = snapshot.state
    /\ \E k \in 1..Len(cars) : cars[k].id = snapshot.ids[k]

\* C2: forward progress under automatic light cycling and any spawn
\* choices: every spawned car eventually leaves the map, no car stays at
\* the same position forever.  The ticks are a function of the
\* configuration, so the claim rules out that the simulation returns to a
\* configuration with a car that has not moved in between.
C2_ForwardProgress == ~stuck_forever

occupied(cs, x, y) == \E j \in 1..Len(cs) : cs[j].x = x /\ cs[j].y = y

\* Some road cell next to the car holds no car.
free_adjacent_road(cs, car) ==
    \E d \in {NORTH, SOUTH, EAST, WEST} :
        /\ is_road(car.x + d[1], car.y + d[2])
        /\ ~occupied(cs, car.x + d[1], car.y + d[2])

\* C3: a car whose consecutive-ticks-in-intersection counter exceeds 5 and
\* that has an unoccupied road cell next to it changes position on the
\* following tick (it advances or reroutes).
C3_BoundedDeadlockRecovery ==
    [][IsTick =>
        \A i \in 1..Len(cars) :
            (cars[i].ticks_in_intersection > 5 /\ free_adjacent_road(cars, cars[i])) =>
                \A j \in 1..Len(cars') :
                    cars'[j].id = cars[i].id =>
                        <<cars'[j].x, cars'[j].y>> /= <<cars[i].x, cars[i].y>>]_vars

known_intersection(id) == id \in DOMAIN intersections

light_states(lights, id) ==
    [k \in 1..4 |-> lights[intersections[id].lights[k]].state]

phase_states(phase) ==
    IF phase = 0 THEN <<GREEN, GREEN, RED, RED>> ELSE <<RED, RED, GREEN, GREEN>>

\* C4: set_intersection_light_phase(id, phase) on an existing intersection
\* completes without error and leaves its lights[0], lights[1] Green and
\* lights[2], lights[3] Red for phase 0, the reverse for phase 1, and the
\* lights of every other intersection unchanged.
C4_SetPhaseSetsLights ==
    [][(/\ last_call'.op = "set_phase"
        /\ known_intersection(last_call'.id)
        /\ last_call'.phase \in {0, 1}) =>
            /\ error' = "none"
            /\ light_states(traffic_lights', last_call'.id) = phase_states(last_call'.phase)
            /\ \A other \in DOMAIN intersections \ {last_call'.id} :
                   light_states(traffic_lights', other) = light_states(traffic_lights, other)]_vars

\* C5: once an intersection's lights have been put in manual mode by
\* set_intersection_light_phase, no later tick changes their state.
C5_ManualOverridePermanent ==
    [][IsTick =>
        \A id \in phase_commanded :
            light_states(traffic_lights', id) = light_states(traffic_lights, id)]_vars

\* The waiting cars of one heading on one approach lane, 1 to 5 cells
\* outside the bounding rectangle of the intersection.
approach_count(cs, id, direction) ==
    LET b == intersections[id].bounds
        In(car) ==
            /\ car.waiting /\ car.direction = direction
            /\ \/ direction = NORTH /\ car.x = b[2] /\ car.y - b[4] \in 1..5
               \/ direction = SOUTH /\ car.x = b[1] /\ b[3] - car.y \in 1..5
               \/ direction = EAST /\ car.y = b[4] /\ b[1] - car.x \in 1..5
               \/ direction = WEST /\ car.y = b[3] /\ car.x - b[2] \in 1..5
    IN  Len(SelectSeq(cs, In))

\* C6: get_intersection_queues(id) returns [north, south, east, west], each
\* entry the number of waiting cars of that heading on that approach lane
\* at distance 1 to 5 outside the intersection's bounding rectangle.
C6_IntersectionQueues ==
    \A id \in DOMAIN intersections :
        get_intersection_queues(cars, id) =
            << approach_count(cars, id, NORTH), approach_count(cars, id, SOUTH),
               approach_count(cars, id, EAST), approach_count(cars, id, WEST) >>

\* The chain of _calculate_queue_lengths that holds the car with this id.
chain_of(cs, id) ==
    LET chains == queue_chains(cs, 1, {})
    IN  {k \in 1..Len(chains) : id \in seq_set(chains[k])}

\* The car is the only car on its cell.
alone_on_cell(cs, i) ==
    \A j \in 1..Len(cs) : (cs[j].x = cs[i].x /\ cs[j].y = cs[i].y) => j = i

\* Car b stands on the cell right behind car a, both waiting, same heading.
queued_behind(cs, a, b) ==
    /\ cs[a].waiting /\ cs[b].waiting
    /\ cs[a].direction = cs[b].direction
    /\ cs[b].x = cs[a].x - cs[a].direction[1]
    /\ cs[b].y = cs[a].y - cs[a].direction[2]
    /\ alone_on_cell(cs, a) /\ alone_on_cell(cs, b)

\* C7: waiting cars of one heading standing on consecutive cells along that
\* heading are reported as one chain, whatever the order of the cars in the
\* container: a waiting car and the waiting car right behind it are never
\* put in two different chains.
C7_QueueChainsMaximal ==
    \A a, b \in 1..Len(cars) :
        queued_behind(cars, a, b) => chain_of(cars, cars[a].id) = chain_of(cars, cars[b].id)

\* C8: the number of live cars never exceeds MAX_CARS, and a tick that
\* starts with MAX_CARS live cars spawns no car.
C8_PopulationCap ==
    /\ [](Len(cars) <= MAX_CARS)
    /\ [][(IsTick /\ Len(cars) = MAX_CARS) =>
             /\ total_cars_spawned' = total_cars_spawned
             /\ Len(cars') <= Len(cars)]_vars

\* With spawn interval 1 the population is exactly MAX_CARS.
C8_Witness == Len(cars) = MAX_CARS /\ spawn_rate = 1

\* C9: for every car and every tick, the consecutive-wait counter is 0 at
\* the end of the tick if and only if the car changed position in the tick,
\* and a car that did not change position has its previous counter plus 1.
C9_ConsecutiveWaitReset ==
    [][IsTick =>
        \A i \in 1..Len(cars_in_tick) : \A j \in 1..Len(cars') :
            LET c == cars_in_tick[i]
                d == cars'[j]
                moved == <<d.x, d.y>> /= <<c.x, c.y>>
            IN  d.id = c.id =>
                    /\ (d.current_wait_time = 0) <=> moved
                    /\ ~moved => d.current_wait_time = c.current_wait_time + 1]_vars

\* A car that has waited before is moving again, its counter back at 0.
C9_Witness ==
    \E i \in 1..Len(cars) :
        cars[i].total_wait_time >= 2 /\ cars[i].current_wait_time = 0

\* C10: a car's cumulative-wait counter never decreases; in each tick it
\* grows by exactly 1 if the waiting flag is set after the car's advance
\* attempt and is unchanged otherwise.
C10_CumulativeWait ==
    [][IsTick =>
        \A i \in 1..Len(cars_in_tick) : \A j \in 1..Len(cars') :
            LET c == cars_in_tick[i]
                d == cars'[j]
            IN  d.id = c.id =>
                    /\ d.total_wait_time >= c.total_wait_time
                    /\ d.total_wait_time =
                           c.total_wait_time + (IF d.waiting THEN 1 ELSE 0)]_vars

\* A car is waiting again after an earlier, finished wait.
C10_Witness ==
    \E i \in 1..Len(cars) :
        /\ cars[i].waiting
        /\ cars[i].total_wait_time > cars[i].current_wait_time
        /\ cars[i].current_wait_time >= 1

\* C11: wait-time conservation: after any sequence of ticks,
\* get_total_wait_time() (the total of the removed cars plus the cumulative
\* wait of the live cars) equals the number of (car, tick) pairs since the
\* start in which the car was counted as waiting; removing a car neither
\* loses nor double counts its wait.
C11_WaitConservation == get_total_wait_time = waiting_pairs

\* Cars that had waited were removed, and live cars have waited too.
C11_Witness ==
    /\ total_wait_time_all_cars > 0
    /\ sum_total_wait(cars) > 0
    /\ \E i \in 1..Len(cars) : cars[i].total_wait_time > cars[i].current_wait_time

\* Every light shows the state it was constructed with.
initial_configuration ==
    \A k \in 1..Len(traffic_lights) :
        traffic_lights[k].state = _init_traffic_lights[k].state

\* C12 as claimed: lights with cycle length 30, some constructed Green and
\* some Red, with no manual override, are back in their initial Green/Red
\* configuration after every number of ticks that is a multiple of 30.
C12_InitialAtMultiplesOfCycle ==
    (\A k \in 1..Len(traffic_lights) :
        tick_count % traffic_lights[k].cycle_time = 0) => initial_configuration

\* C12 amended: such lights are back in their initial Green/Red configuration
\* after every number of ticks that is a multiple of twice the cycle length
\* (60, 120, 180, ...).
C12_InitialAtMultiplesOfTwoCycles ==
    (\A k \in 1..Len(traffic_lights) :
        tick_count % (2 * traffic_lights[k].cycle_time) = 0) => initial_configuration

\* The lights have gone through two full periods and are back.
C12_Witness ==
    /\ tick_count = 120
    /\ initial_configuration
    /\ \E k, m \in 1..Len(traffic_lights) :
           traffic_lights[k].state = GREEN /\ traffic_lights[m].state = RED

no_other_in_intersection(cs, id) ==
    \A j \in 1..Len(cs) : cs[j].id /= id => ~is_intersection(cs[j].x, cs[j].y)

last(q) == q[Len(q)]

\* C13: within one step() the phases run in the order light update, spawn,
\* car resolution, removal, statistics.  (a) A car at a stop line, free to
\* attempt (no restart delay running, no other car inside an intersection
\* before or after the tick), is held by the Red gate exactly when its
\* approach light is Red after this tick's update.  (b) A car spawned in the
\* tick has made its first advance attempt by the end of the tick: it has
\* left its spawn cell or has been counted waiting once.  (c) No car off the
\* map is left in the container, and the tick's wait and queue samples are
\* those of the cars that remain.
C13_PhaseOrder ==
    [][IsTick =>
        /\ \A i \in 1..Len(cars_in_tick) :
               LET c == cars_in_tick[i]
               IN  (/\ at_stop_line(c)
                    /\ c.restart_delay_counter = 0
                    /\ no_other_in_intersection(cars_in_tick, c.id)
                    /\ no_other_in_intersection(cars', c.id)) =>
                       \A j \in 1..Len(cars') :
                           cars'[j].id = c.id =>
                               (cars'[j].was_waiting <=>
                                    approach_light_red(c, traffic_lights'))
        /\ total_cars_spawned' = total_cars_spawned + 1 =>
               LET sp == random_choice(rand_state)
               IN  \E j \in 1..Len(cars') :
                       /\ cars'[j].id = total_cars_spawned'
                       /\ \/ <<cars'[j].x, cars'[j].y>> =
                                 <<sp[1] + sp[3][1], sp[2] + sp[3][2]>>
                          \/ /\ <<cars'[j].x, cars'[j].y>> = <<sp[1], sp[2]>>
                             /\ cars'[j].waiting
                             /\ cars'[j].total_wait_time = 1
        /\ \A j \in 1..Len(cars') : on_map(cars'[j])
        /\ last(wait_time_history') =
               (IF SelectSeq(cars', is_waiting) /= <<>>
                THEN ratio(sum_current_wait(SelectSeq(cars', is_waiting)),
                           Len(SelectSeq(cars', is_waiting)))
                ELSE ratio(0, 1))
        /\ last(queue_length_history') =
               (IF _calculate_queue_lengths(cars') /= <<>>
                THEN ratio(sum_seq(_calculate_queue_lengths(cars')),
                           Len(_calculate_queue_lengths(cars')))
                ELSE ratio(0, 1))]_vars

\* The tick that turned its approach light Green found a car at the stop
\* line and let it begin its restart delay.
C13_Witness ==
    /\ tick_count = 30
    /\ \E i \in 1..Len(cars) :
           /\ at_stop_line(cars[i])
           /\ \E k \in 1..Len(traffic_lights) :
                  /\ <<traffic_lights[k].x, traffic_lights[k].y>> = right_cell(cars[i])
                  /\ traffic_lights[k].state = GREEN
                  /\ traffic_lights[k].timer = 0
           /\ no_other_in_intersection(cars, cars[i].id)
           /\ cars[i].restart_delay_counter = restart_delay
           /\ ~cars[i].was_waiting

\* The position of the car with this id after the tick; off the map (and
\* out of the container) reads as no position.
position_after(id) ==
    IF \E j \in 1..Len(cars') : cars'[j].id = id
    THEN LET j == CHOOSE j \in 1..Len(cars') : cars'[j].id = id
         IN  <<cars'[j].x, cars'[j].y>>
    ELSE <<>>

\* The give-way exception of the following gate: a car held in an
\* intersection for more than 3 ticks ignores a car outside of it.
forces_exit(c, d) ==
    /\ is_intersection(c.x, c.y)
    /\ c.restart_delay_counter = 0
    /\ c.ticks_in_intersection + 1 > 3
    /\ ~is_intersection(d.x, d.y)

\* C14: cars are resolved in container order, which is insertion order
\* without the removed cars, and not against a snapshot.  A car processed
\* earlier is blocked by the pre-move position of a later car, even if that
\* car leaves the cell in the same tick; a car processed later sees the
\* moves already made, so when an earlier car has left the cell ahead of it
\* in this tick and nothing else holds it, it enters that cell.
C14_ContainerOrderResolution ==
    /\ [](\A i, j \in 1..Len(cars) : i < j => cars[i].id < cars[j].id)
    /\ [][IsTick =>
            \A i, j \in 1..Len(cars_in_tick) :
                LET c == cars_in_tick[i]
                    d == cars_in_tick[j]
                IN  /\ (/\ i < j
                        /\ <<d.x, d.y>> = next_cell(c)
                        /\ ~forces_exit(c, d)) =>
                            position_after(c.id) = <<c.x, c.y>>
                    /\ (/\ i < j
                        /\ <<c.x, c.y>> = next_cell(d)
                        /\ position_after(c.id) /= <<c.x, c.y>>
                        /\ d.restart_delay_counter = 0
                        /\ ~d.was_waiting
                        /\ ~is_intersection(c.x, c.y)
                        /\ \A k \in 1..Len(cars_in_tick) :
                               (k /= i /\ k /= j) =>
                                   /\ <<cars_in_tick[k].x, cars_in_tick[k].y>> /= <<c.x, c.y>>
                                   /\ position_after(cars_in_tick[k].id) /= <<c.x, c.y>>) =>
                            position_after(d.id) = <<c.x, c.y>>]_vars

\* A car stands where the car before it in the container stood at the start
\* of the tick: both have just advanced one cell, the later into the cell
\* the earlier left.
entered_vacated_cell ==
    \E i, j \in 1..Len(cars) :
        /\ i < j
        /\ cars[i].direction = cars[j].direction
        /\ <<cars[i].x, cars[i].y>> = next_cell(cars[j])
        /\ ~cars[i].waiting /\ ~cars[j].waiting
        /\ cars[i].entry_direction = NoDirection
        /\ cars[j].entry_direction = NoDirection
        /\ cars[j].total_wait_time > 0

\* An earlier car waits behind the cell a later car left in this tick.
blocked_by_later_car ==
    \E i, j \in 1..Len(cars) :
        /\ i < j
        /\ cars[i].waiting /\ ~cars[j].waiting
        /\ cars[i].direction = cars[j].direction
        /\ <<cars[j].x, cars[j].y>> = next_cell([cars[i] EXCEPT !.x = next_cell(cars[i])[1], !.y = next_cell(cars[i])[2]])
        /\ ~occupied(cars, next_cell(cars[i])[1], next_cell(cars[i])[2])
        /\ cars[i].restart_delay_counter = 0
        /\ ~at_stop_line(cars[i])

\* Both cases of the resolution order have just happened.
C14_Witness == entered_vacated_cell /\ blocked_by_later_car

\* C15: from a freshly constructed Simulation, any sequence of step() calls
\* interleaved with get_state() calls completes without an exception, and
\* get_state() reports the current tick count, one record per live car and
\* one per light.
C15_HeadlessRunCompletes ==
    /\ error = "none"
    /\ snapshot.taken =>
           /\ snapshot.report.tick = snapshot.tick
           /\ Len(snapshot.report.cars) = Len(snapshot.ids)
           /\ \A k \in 1..Len(snapshot.ids) :
                  snapshot.report.cars[k].id = snapshot.ids[k]
           /\ Len(snapshot.report.lights) = Len(traffic_lights)

\* C16: inability to move is signalled by the waiting flag: after every
\* advance attempt that left the car's position unchanged the waiting flag
\* is set, and after every attempt that changed the position it is clear.
\* For the cars still in the container the flag is compared with the
\* positions before and after the tick; the cars that left the map changed
\* position, so none of them may have been counted as waiting.
C16_WaitingIffNotMoved ==
    [][IsTick =>
        /\ \A i \in 1..Len(cars_in_tick) : \A j \in 1..Len(cars') :
               LET c == cars_in_tick[i]
                   d == cars'[j]
               IN  d.id = c.id => (d.waiting <=> <<d.x, d.y>> = <<c.x, c.y>>)
        /\ waiting_pairs' - waiting_pairs = Len(SelectSeq(cars', is_waiting))]_vars

\* After one tick a car stands refused at an intersection its light lets it
\* into, another car has advanced, and a car has left the map.
C16_Witness ==
    /\ \E i \in 1..Len(cars) :
           /\ cars[i].waiting
           /\ at_stop_line(cars[i])
           /\ ~approach_light_red(cars[i], traffic_lights)
           /\ cars[i].restart_delay_counter = 0
           /\ ~cars[i].was_waiting
    /\ \E i \in 1..Len(cars) : ~cars[i].waiting
    /\ total_cars_spawned > Len(cars)

\* C17: map queries never fail on out-of-bounds coordinates: for every
\* (x, y) outside [0, width) x [0, height), is_road and is_intersection both
\* answer false and get_cell answers with no cell kind.
C17_OutOfBoundsQueries ==
    (query.op = "map" /\ ~in_bounds(query.x, query.y)) =>
        /\ query.cell = None
        /\ query.cell \notin {ROAD, INTERSECTION, BUILDING, GRASS}
        /\ ~query.road
        /\ ~query.intersection

\* The map was asked about the cell past the west end of the westbound lane.
C17_Witness ==
    /\ query.op = "map"
    /\ query.x = -1 /\ query.y = 10
    /\ query.cell = None /\ ~query.road /\ ~query.intersection

\* C18: a light with cycle length C changes state on its k-th update()
\* (counted from construction, one update per tick) if and only if k is a
\* positive multiple of C; its timer is 0 after each toggle and satisfies
\* 0 <= timer < C after every update.
C18_ToggleEveryCycle ==
    [][IsTick =>
        \A k \in 1..Len(traffic_lights) :
            LET before == traffic_lights[k]
                after == traffic_lights'[k]
                toggled == after.state /= before.state
            IN  /\ toggled <=> (tick_count' > 0 /\ tick_count' % before.cycle_time = 0)
                /\ toggled => after.timer = 0
                /\ 0 <= after.timer /\ after.timer < after.cycle_time
                /\ after.state \in {RED, GREEN}]_vars

\* The second toggle has just happened: the 60th update put the first light
\* back to Green with its timer at 0.
C18_Witness ==
    /\ tick_count = 60
    /\ traffic_lights[1].state = GREEN
    /\ traffic_lights[1].timer = 0
    /\ traffic_lights[3].state = RED

\* C19: alternation: in every reachable state, under automatic cycling and
\* under phase commands, and for every intersection, the two vertical lights
\* have the same state, the two horizontal lights have the same state, and
\* the vertical state differs from the horizontal one: the two crossing
\* flows are never Green at the same time.
C19_Alternation ==
    \A id \in DOMAIN intersections :
        LET ls == [k \in 1..4 |-> traffic_lights[intersections[id].lights[k]]]
        IN  /\ \A a, b \in 1..4 :
                   (ls[a].axis = ls[b].axis) <=> (ls[a].state = ls[b].state)
            /\ \E a, b \in 1..4 :
                   ls[a].axis = "VERTICAL" /\ ls[b].axis = "HORIZONTAL"
            /\ ~\E a, b \in 1..4 :
                   /\ ls[a].axis /= ls[b].axis
                   /\ is_green(ls[a]) /\ is_green(ls[b])

\* A phase command was issued and the lights have toggled since
\* construction: the horizontal flow is Green, the vertical one Red.
C19_Witness ==
    /\ phase_commanded /= {}
    /\ tick_count >= 30
    /\ \A id \in DOMAIN intersections :
           light_states(traffic_lights, id) = <<RED, RED, GREEN, GREEN>>

\* The 2x2 Intersection blocks of the Map, each as <<x_min, x_max, y_min,
\* y_max>>.
map_blocks ==
    {b \in {<<x, x + 1, y, y + 1>> : x \in 0..(width - 2), y \in 0..(height - 2)} :
        \A x \in b[1]..b[2], y \in b[3]..b[4] : is_intersection(x, y)}

\* The four approaches of a block in the order south-entry, north-entry,
\* east-entry, west-entry: the stop-line cell and the heading of a car on it.
approaches(b) ==
    << [x |-> b[1], y |-> b[3] - 1, direction |-> SOUTH],
       [x |-> b[2], y |-> b[4] + 1, direction |-> NORTH],
       [x |-> b[1] - 1, y |-> b[4], direction |-> EAST],
       [x |-> b[2] + 1, y |-> b[3], direction |-> WEST] >>

\* The lights of every known intersection stand, in the order south-entry,
\* north-entry, east-entry, west-entry, to the right of the stop lines of
\* its bounds.
quadruples_in_order ==
    \A id \in DOMAIN intersections :
        /\ Len(intersections[id].lights) = 4
        /\ \A k \in 1..4 :
               LET a == approaches(intersections[id].bounds)[k]
                   tl == traffic_lights[intersections[id].lights[k]]
               IN  <<tl.x, tl.y>> = right_cell(a)

\* Every block of the Map is the bounds of a known intersection whose four
\* lights are the ones the signal gate finds from the four stop lines.
blocks_controlled ==
    \A b \in map_blocks :
        \E id \in DOMAIN intersections :
            /\ intersections[id].bounds = b
            /\ \A k \in 1..4 :
                   find_light(traffic_lights, light_check_cell(approaches(b)[k])) =
                       intersections[id].lights[k]

\* C20: every intersection known to the Simulation exposes exactly four
\* lights in the order south-entry, north-entry, east-entry, west-entry, and
\* every 2x2 Intersection block of the Map is controlled by such a
\* quadruple: each of its four stop-line cells has a light at the cell to
\* the right of a car standing on it, so no car enters an Intersection cell
\* from outside without its signal gate finding a light.
C20_EveryBlockControlled ==
    /\ [](quadruples_in_order /\ blocks_controlled)
    /\ [][IsTick =>
            \A i \in 1..Len(cars_in_tick) : \A j \in 1..Len(cars') :
                LET c == cars_in_tick[i]
                    d == cars'[j]
                IN  (/\ d.id = c.id
                     /\ ~is_intersection(c.x, c.y)
                     /\ is_intersection(d.x, d.y)) =>
                        find_light(traffic_lights', light_check_cell(c)) /= 0]_vars

\* C21: a car that a gate (Red light, intersection conflict, occupied
\* destination) refused on the previous tick does not move on the tick after:
\* either a gate refuses it again or, all gates passing, the tick arms the
\* restart delay.  The delay is armed only for such a car, with RESTART_DELAY,
\* and the arming tick is one more waiting tick.
C21_AccordionAfterAnyRefusal ==
    [][IsTick =>
        \A i \in 1..Len(cars_in_tick) :
            LET c == cars_in_tick[i]
            IN  /\ c.id \in refused =>
                    \E j \in 1..Len(cars') :
                        /\ cars'[j].id = c.id
                        /\ <<cars'[j].x, cars'[j].y>> = <<c.x, c.y>>
                        /\ \/ c.id \in refused'
                           \/ cars'[j].restart_delay_counter = RESTART_DELAY
                /\ \A j \in 1..Len(cars') :
                       LET d == cars'[j]
                       IN  (/\ d.id = c.id
                            /\ c.restart_delay_counter = 0
                            /\ d.restart_delay_counter > 0) =>
                               /\ c.id \in refused
                               /\ d.restart_delay_counter = RESTART_DELAY
                               /\ d.waiting
                               /\ d.total_wait_time = c.total_wait_time + 1]_vars

\* C22: a car whose restart-delay counter is positive spends the tick in the
\* restart-delay gate alone: the counter goes down by exactly 1, the car
\* keeps its position and heading, it is a waiting car of the tick, and no
\* field another gate would write (intersection counter, entry heading,
\* was_waiting) changes.  The counter of every car stays within
\* 0..RESTART_DELAY, so a car armed with delay N stays put for N ticks.
C22_RestartDelayGate ==
    /\ [](\A j \in 1..Len(cars) :
              cars[j].restart_delay_counter \in 0..RESTART_DELAY)
    /\ [][IsTick =>
            \A i \in 1..Len(cars_in_tick) :
                LET c == cars_in_tick[i]
                IN  c.restart_delay_counter > 0 =>
                        \E j \in 1..Len(cars') :
                            cars'[j] =
                                [c EXCEPT !.restart_delay_counter = @ - 1,
                                          !.waiting = TRUE,
                                          !.total_wait_time = @ + 1,
                                          !.current_wait_time = @ + 1]]_vars

\* A car armed with a delay of 2 has spent one tick of it.
C22_Witness ==
    /\ RESTART_DELAY = 2
    /\ last_call.op = "step"
    /\ \E j \in 1..Len(cars) :
           /\ cars[j].restart_delay_counter = 1
           /\ cars[j].waiting
           /\ cars[j].current_wait_time >= 2

\* The advance attempts of step 3 from the i-th car on: the car as the call
\* of move finds it, the list it is handed (with the moves already made in
\* this tick) and the car as move leaves it.
RECURSIVE move_attempts(_, _, _, _)
move_attempts(cs, i, lights, delay) ==
    IF i > Len(cs) THEN {}
    ELSE UNION {{[self |-> cs[i], other_cars |-> cs, result |-> c]}
                    \cup move_attempts([cs EXCEPT ![i] = increment_wait_time(c)],
                                       i + 1, lights, delay) :
                c \in move(cs[i], lights, cs, delay)}

\* The advance attempts of the coming tick.
attempts_in_tick ==
    move_attempts(cars_in_tick, 1, traffic_lights', RESTART_DELAY)

\* The attempt moved the car to another cell.
advanced(a) == <<a.result.x, a.result.y>> /= <<a.self.x, a.self.y>>

\* A gate refused the attempt: no restart delay was running, the car stayed
\* and no restart delay was armed.
gate_refused(a) ==
    /\ a.self.restart_delay_counter = 0
    /\ a.result.restart_delay_counter = 0
    /\ ~advanced(a)

perpendicular(d, e) == d /= e /\ ~is_opposite(d, e)

\* C23: (a) when a car advances from a cell outside the intersections into
\* an Intersection cell, no other car that is in an Intersection cell at the
\* moment of the move has a heading perpendicular to the heading the car
\* enters with.  (b) A car already inside an intersection is never refused
\* by the conflict gate: when a gate refuses it, the Red gate or an occupied
\* destination did.
C23_ConflictGate ==
    [][IsTick =>
        \A a \in attempts_in_tick :
            /\ (/\ ~is_intersection(a.self.x, a.self.y)
                /\ is_intersection(a.result.x, a.result.y)) =>
                   \A j \in 1..Len(a.other_cars) :
                       LET o == a.other_cars[j]
                       IN  (o.id /= a.self.id /\ is_intersection(o.x, o.y)) =>
                               ~perpendicular(o.direction, a.self.direction)
            /\ (is_intersection(a.self.x, a.self.y) /\ gate_refused(a)) =>
                   \/ red_light_ahead(a.self, traffic_lights')
                   \/ occupied_by_other(a.self, a.other_cars,
                                        next_cell(a.self)[1], next_cell(a.self)[2])]_vars

\* A car has just entered an intersection while a car resolved before it
\* was inside one, and a car inside an intersection has advanced within it.
C23_Witness ==
    /\ \E i, j \in 1..Len(cars) :
           /\ i < j
           /\ is_intersection(cars[i].x, cars[i].y)
           /\ is_intersection(cars[j].x, cars[j].y)
           /\ ~cars[j].waiting
           /\ cars[j].ticks_in_intersection = 0
           /\ ~perpendicular(cars[i].direction, cars[j].entry_direction)
    /\ \E j \in 1..Len(cars) :
           /\ is_intersection(cars[j].x, cars[j].y)
           /\ ~cars[j].waiting
           /\ cars[j].ticks_in_intersection >= 1

\* The attempt runs with the give-way exception of the following gate in
\* force against the car o: the car has been inside an intersection for more
\* than 3 consecutive ticks, this one included, and o is outside of any.
gives_no_way(a, o) ==
    /\ is_intersection(a.self.x, a.self.y)
    /\ a.result.ticks_in_intersection > 3
    /\ ~is_intersection(o.x, o.y)

\* C24: a car advances into a cell another car occupies at the moment of
\* the move only when it is inside an intersection, its count of consecutive
\* ticks in the intersection is above 3 and every occupant of the
\* destination is outside any intersection.
C24_FollowingGate ==
    [][IsTick =>
        \A a \in attempts_in_tick :
            advanced(a) =>
                \A j \in 1..Len(a.other_cars) :
                    LET o == a.other_cars[j]
                    IN  (/\ o.id /= a.self.id
                         /\ <<o.x, o.y>> = <<a.result.x, a.result.y>>) =>
                            gives_no_way(a, o)]_vars

\* A car held for more than 3 ticks has forced its way out of an
\* intersection onto the cell of a car outside.
forced_its_way_out ==
    \E i, j \in 1..Len(cars) :
        /\ i /= j
        /\ <<cars[i].x, cars[i].y>> = <<cars[j].x, cars[j].y>>
        /\ ~is_intersection(cars[i].x, cars[i].y)
        /\ cars[i].ticks_in_intersection > 3
        /\ ~cars[i].waiting

\* A car is held behind the car on the cell ahead of it, the exception not
\* being in force for it.
held_behind_car ==
    \E i, j \in 1..Len(cars) :
        /\ i /= j
        /\ <<cars[j].x, cars[j].y>> = next_cell(cars[i])
        /\ ~(/\ is_intersection(cars[i].x, cars[i].y)
             /\ cars[i].ticks_in_intersection > 3
             /\ ~is_intersection(cars[j].x, cars[j].y))
        /\ cars[i].restart_delay_counter = 0
        /\ cars[i].waiting /\ cars[i].was_waiting

\* Both the exception and the rule of the following gate have just acted.
C24_Witness == forced_its_way_out /\ held_behind_car

\* The heading of each lane a cell lies on: x = 5 and x = 10 run South,
\* x = 6 and x = 11 North, y = 10 West, y = 11 East.
lane_headings(x, y) ==
    (IF x \in {5, 10} THEN {SOUTH} ELSE IF x \in {6, 11} THEN {NORTH} ELSE {})
        \cup (IF y = 10 THEN {WEST} ELSE IF y = 11 THEN {EAST} ELSE {})

\* The headings other than its own by which the car of an attempt could
\* leave its cell onto an unoccupied road cell.
free_alternatives(a) ==
    {d \in lane_headings(a.self.x, a.self.y) \ {a.self.direction} :
        /\ is_road(a.self.x + d[1], a.self.y + d[2])
        /\ ~occupied_by_other(a.self, a.other_cars,
                              a.self.x + d[1], a.self.y + d[2])}

ids_of(cs) == {cs[j].id : j \in 1..Len(cs)}

\* C26: a car with no restart delay running whose destination lies outside
\* the map advances onto it, whatever the lights show and wherever the other
\* cars are, and is no longer in the car collection when the tick ends;
\* every car of the collection is inside the map bounds after every step().
C26_LeavingTheMap ==
    /\ [](\A j \in 1..Len(cars) : in_bounds(cars[j].x, cars[j].y))
    /\ [][IsTick =>
            \A a \in attempts_in_tick :
                (/\ a.self.restart_delay_counter = 0
                 /\ ~in_bounds(next_cell(a.self)[1], next_cell(a.self)[2])) =>
                    /\ <<a.result.x, a.result.y>> = next_cell(a.self)
                    /\ a.self.id \notin ids_of(cars')]_vars

\* Some car spawned earlier has left the map and is gone from the
\* collection, while other cars are still on the map.
C26_Witness ==
    /\ last_call.op = "step"
    /\ Len(cars) > 0
    /\ Len(wait_time_history) > 1
    /\ \E id \in 1..total_cars_spawned : id \notin ids_of(cars)

\* The heading of the car is not the reverse of its recorded
\* intersection-entry heading.
no_entry_u_turn(car) ==
    car.entry_direction /= NoDirection =>
        ~is_opposite(car.direction, car.entry_direction)

\* C27: the heading a car has after an advance is never the opposite of the
\* heading it advanced with, and the heading of a car inside an intersection
\* is never the opposite of its recorded intersection-entry heading.
C27_NoUTurn ==
    /\ [](\A j \in 1..Len(cars) :
              is_intersection(cars[j].x, cars[j].y) => no_entry_u_turn(cars[j]))
    /\ [][IsTick =>
            \A a \in attempts_in_tick :
                advanced(a) =>
                    /\ ~is_opposite(a.result.direction, a.self.direction)
                    /\ is_intersection(a.result.x, a.result.y) =>
                           /\ a.result.entry_direction /= NoDirection
                           /\ no_entry_u_turn(a.result)]_vars

\* A car has just advanced into an intersection, its entry heading has been
\* recorded and the heading selected for the next tick is a turn.
C27_Witness ==
    \E j \in 1..Len(cars) :
        /\ is_intersection(cars[j].x, cars[j].y)
        /\ ~cars[j].waiting
        /\ cars[j].ticks_in_intersection = 0
        /\ cars[j].entry_direction \in {NORTH, SOUTH}
        /\ cars[j].direction \in {EAST, WEST}

\* The attempt takes a car heading North or South from outside into an
\* Intersection cell.
enters_on_vertical_lane(a) ==
    /\ advanced(a)
    /\ ~is_intersection(a.self.x, a.self.y)
    /\ is_intersection(a.result.x, a.result.y)
    /\ a.self.direction \in {NORTH, SOUTH}

\* C28: the permitted exits of an Intersection cell are the headings of the
\* vertical and of the horizontal lane it lies on, so when a car enters an
\* intersection heading North or South, Straight is among the headings the
\* selection can give it: some outcome of the same attempt keeps the car on
\* its vertical lane.
C28_StraightAmongCandidates ==
    [][IsTick =>
        \A a \in attempts_in_tick :
            enters_on_vertical_lane(a) =>
                /\ seq_set(get_allowed_directions(a.result.x, a.result.y)) =
                       lane_headings(a.result.x, a.result.y)
                /\ \E b \in attempts_in_tick :
                       /\ b.self = a.self
                       /\ b.other_cars = a.other_cars
                       /\ b.result.direction = a.self.direction]_vars

\* C29: get_allowed_directions(x, y) is empty for every (x, y) for which
\* is_road(x, y) is false, coordinates outside the map included, and is not
\* empty for every Road or Intersection cell.
C29_ExitsOnlyOnRoad ==
    query.op = "map" => (query.road <=> query.allowed /= <<>>)

\* The coming tick is one whose tick count is a multiple of the spawn
\* interval.
spawn_due == (tick_count + 1) % spawn_rate = 0

\* The spawn points no car stands on before the tick.
unoccupied_spawn_points ==
    {k \in 1..Len(spawn_points) :
        ~occupied(cars, spawn_points[k][1], spawn_points[k][2])}

\* The tick added exactly one car, spawned at one of the given spawn points:
\* at the end of the tick it waits there or has made its first advance, and
\* it has the heading of the spawn point.
one_car_added_at(points) ==
    /\ total_cars_spawned' = total_cars_spawned + 1
    /\ ids_of(cars') \ ids_of(cars) = {total_cars_spawned'}
    /\ \E k \in points : \A j \in 1..Len(cars') :
           LET d == cars'[j]
               p == spawn_points[k]
           IN  d.id = total_cars_spawned' =>
                   /\ d.direction = p[3]
                   /\ \/ <<d.x, d.y>> = <<p[1], p[2]>> /\ d.total_wait_time = 1
                      \/ <<d.x, d.y>> = <<p[1] + p[3][1], p[2] + p[3][2]>>
                            /\ d.total_wait_time = 0

no_car_added ==
    /\ total_cars_spawned' = total_cars_spawned
    /\ ids_of(cars') \subseteq ids_of(cars)

\* C30 as stated: on a tick whose tick count is a multiple of the spawn
\* interval, with the population below the cap and at least one spawn point
\* unoccupied, exactly one car is added, at an unoccupied spawn point and
\* with its heading, and total_cars_spawned grows by 1; on a tick whose tick
\* count is no multiple of the interval no car is added.
C30_SpawnWheneverAPointIsFree ==
    [][IsTick =>
        /\ (spawn_due /\ Len(cars) < MAX_CARS /\ unoccupied_spawn_points /= {}) =>
               one_car_added_at(unoccupied_spawn_points)
        /\ ~spawn_due => no_car_added]_vars

\* The index of the spawn point random.choice draws in the coming tick.
drawn_spawn_point == rand_state + 1

\* C30, amended: on a tick whose tick count is a multiple of the spawn
\* interval, with the population below the cap and the spawn point drawn
\* for the tick unoccupied, exactly one car is added, at that spawn point
\* and with its heading, and total_cars_spawned grows by 1; on every other
\* tick no car is added.
C30_SpawnAtDrawnPoint ==
    [][IsTick =>
        IF /\ spawn_due
           /\ Len(cars) < MAX_CARS
           /\ drawn_spawn_point \in unoccupied_spawn_points
        THEN one_car_added_at({drawn_spawn_point})
        ELSE no_car_added]_vars

\* The tick just made was a spawn tick and added a car, and the spawn point
\* of the next draw is occupied while another one is free.
C30_Witness ==
    /\ last_call.op = "step"
    /\ tick_count % spawn_rate = 0
    /\ total_cars_spawned \in ids_of(cars)
    /\ \E j \in 1..Len(cars) :
           /\ cars[j].id = total_cars_spawned
           /\ cars[j].total_wait_time + cars[j].current_wait_time = 0
    /\ Len(cars) < MAX_CARS
    /\ drawn_spawn_point \notin unoccupied_spawn_points
    /\ unoccupied_spawn_points /= {}

\* The chains the queue-length computation reports for the live cars.
reported_chains == queue_chains(cars, 1, {})

\* C31: the reported chains partition the waiting cars: every waiting car is
\* in exactly one chain, once; no car that is not waiting is in a chain;
\* every chain member is a live car; and the reported lengths add up to the
\* number of waiting cars.
C31_ChainsPartitionWaitingCars ==
    /\ \A j \in 1..Len(cars) :
           Cardinality(chain_of(cars, cars[j].id)) = IF cars[j].waiting THEN 1 ELSE 0
    /\ \A k \in 1..Len(reported_chains) :
           /\ Cardinality(seq_set(reported_chains[k])) = Len(reported_chains[k])
           /\ seq_set(reported_chains[k]) \subseteq ids_of(cars)
    /\ sum_seq(_calculate_queue_lengths(cars)) = Len(SelectSeq(cars, is_waiting))

\* Several chains are reported, one of them longer than one car and started
\* by a car that comes later in the container than a car behind it, next to
\* cars that are not waiting.
C31_Witness ==
    /\ Len(reported_chains) >= 2
    /\ \E j \in 1..Len(cars) : ~cars[j].waiting
    /\ \E a, b \in 1..Len(cars) :
           /\ b < a
           /\ queued_behind(cars, a, b)
    /\ \E k \in 1..Len(reported_chains) : Len(reported_chains[k]) >= 2

\* The number of samples a history holds after t ticks.
samples_after(t) == IF t < 10 * FPS THEN t ELSE 10 * FPS

\* The history after is the history before with one sample appended, the
\* oldest sample dropped if the history was full.
one_sample_appended(before, after) ==
    IF Len(before) < 10 * FPS
    THEN /\ Len(after) = Len(before) + 1
         /\ SubSeq(after, 1, Len(before)) = before
    ELSE /\ Len(after) = 10 * FPS
         /\ SubSeq(after, 1, 10 * FPS - 1) = Tail(before)

\* C32: every step() appends exactly one sample to the wait-time history and
\* one to the queue-length history, evicting the oldest sample of a full
\* history, so after t ticks each history holds min(t, 10 * FPS) samples.
C32_RollingWindows ==
    /\ [](/\ Len(wait_time_history) = samples_after(tick_count)
          /\ Len(queue_length_history) = samples_after(tick_count))
    /\ [][IsTick =>
            /\ one_sample_appended(wait_time_history, wait_time_history')
            /\ one_sample_appended(queue_length_history, queue_length_history')]_vars

\* Both histories are full, samples have been evicted, and the window holds
\* samples that differ.
C32_Witness ==
    /\ tick_count > 10 * FPS + 1
    /\ Len(wait_time_history) = 10 * FPS
    /\ Len(queue_length_history) = 10 * FPS
    /\ wait_time_history[1] /= wait_time_history[10 * FPS]
    /\ queue_length_history[1] /= queue_length_history[10 * FPS]

\* The largest chain length the queue-length computation reports for a list
\* of cars, 0 if it reports no chain.
largest_chain(cs) ==
    LET lengths == _calculate_queue_lengths(cs)
    IN  IF lengths = <<>> THEN 0
        ELSE CHOOSE m \in seq_set(lengths) : \A n \in seq_set(lengths) : n <= m

\* C33: max_queue_length starts at 0, never decreases, and every tick leaves
\* it at the larger of its old value and the largest chain length reported
\* for the cars at the end of the tick; nothing else changes it.  So it is
\* the largest chain length reported at the end of any tick so far.
C33_AllTimeMaximum ==
    /\ [](tick_count = 0 => max_queue_length = 0)
    /\ [][/\ max_queue_length' >= max_queue_length
          /\ IF IsTick
             THEN max_queue_length' =
                      IF largest_chain(cars') > max_queue_length
                      THEN largest_chain(cars') ELSE max_queue_length
             ELSE max_queue_length' = max_queue_length]_vars

\* The maximum was reached in an earlier tick: the chains reported now are
\* shorter, and the longest of them is not the first.
C33_Witness ==
    /\ last_call.op = "step"
    /\ max_queue_length >= 3
    /\ largest_chain(cars) \in 2..(max_queue_length - 1)
    /\ _calculate_queue_lengths(cars)[1] < largest_chain(cars)

\* C34: a car has a recorded entry heading exactly while it is inside an
\* Intersection cell.  An advance from outside into an Intersection cell
\* records the heading the car entered with, a tick that leaves the car
\* inside the intersection keeps the record, and an advance onto a cell that
\* is no Intersection cell clears it.
C34_EntryHeadingLifecycle ==
    /\ [](\A j \in 1..Len(cars) :
              cars[j].entry_direction /= NoDirection <=>
                  is_intersection(cars[j].x, cars[j].y))
    /\ [][IsTick =>
            \A a \in attempts_in_tick :
                IF ~is_intersection(a.result.x, a.result.y)
                THEN a.result.entry_direction = NoDirection
                ELSE IF is_intersection(a.self.x, a.self.y)
                     THEN a.result.entry_direction = a.self.entry_direction
                     ELSE a.result.entry_direction = a.self.direction]_vars

\* One car waits inside an intersection it entered on a vertical lane, its
\* entry heading still recorded after the turn, and another car has left an
\* intersection and has no entry heading any more.
C34_Witness ==
    /\ \E j \in 1..Len(cars) :
           /\ is_intersection(cars[j].x, cars[j].y)
           /\ cars[j].entry_direction \in {NORTH, SOUTH}
           /\ cars[j].direction \in {EAST, WEST}
           /\ cars[j].ticks_in_intersection >= 1
    /\ \E j \in 1..Len(cars) :
           /\ ~is_intersection(cars[j].x, cars[j].y)
           /\ cars[j].ticks_in_intersection >= 1
           /\ ~cars[j].waiting
           /\ cars[j].entry_direction = NoDirection

\* C35: for an id that is no known intersection, get_intersection_queues
\* returns [0, 0, 0, 0] and set_intersection_light_phase returns without an
\* error and leaves every light as it was, state and timer; a phase other
\* than 0 and 1 on a known intersection changes the state of no light.
C35_UnknownIdsAndPhases ==
    /\ [](\A id \in IntersectionIds \ DOMAIN intersections :
              get_intersection_queues(cars, id) = <<0, 0, 0, 0>>)
    /\ [][last_call'.op = "set_phase" =>
            /\ ~known_intersection(last_call'.id) =>
                   /\ error' = "none"
                   /\ traffic_lights' = traffic_lights
            /\ (known_intersection(last_call'.id) /\ last_call'.phase \notin {0, 1}) =>
                   \A id \in DOMAIN intersections :
                       light_states(traffic_lights', id) =
                           light_states(traffic_lights, id)]_vars

\* A phase command for the unknown id 2 has returned, with lights that have
\* toggled since construction and cars waiting on the map.
C35_Witness ==
    /\ last_call.op = "set_phase"
    /\ last_call.id = 2
    /\ last_call.id \notin DOMAIN intersections
    /\ error = "none"
    /\ tick_count >= 30
    /\ \E j \in 1..Len(cars) : cars[j].waiting

\* Two cars of the list stand on one cell.
share_a_cell(cs, i, j) ==
    i /= j /\ <<cs[i].x, cs[i].y>> = <<cs[j].x, cs[j].y>>

\* C36 as stated: after every step(), no two live cars occupy the same
\* cell.
C36_CollisionFreedom ==
    \A i, j \in 1..Len(cars) : ~share_a_cell(cars, i, j)

\* In the coming tick the car of this id leaves an intersection, where it
\* has been for more than 3 consecutive ticks, for a cell outside.
forced_out_in_tick(id) ==
    \E k \in 1..Len(cars) :
        /\ cars[k].id = id
        /\ is_intersection(cars[k].x, cars[k].y)
        /\ \E l \in 1..Len(cars') :
               /\ cars'[l].id = id
               /\ ~is_intersection(cars'[l].x, cars'[l].y)
               /\ cars'[l].ticks_in_intersection > 3

\* The two cars stood on one cell before the coming tick and neither moves
\* in it.
stay_together_in_tick(id1, id2) ==
    \E k1 \in 1..Len(cars) :
        /\ cars[k1].id = id1
        /\ \E k2 \in 1..Len(cars) :
               /\ cars[k2].id = id2
               /\ share_a_cell(cars, k1, k2)
               /\ \E l1 \in 1..Len(cars') :
                      /\ cars'[l1].id = id1
                      /\ <<cars'[l1].x, cars'[l1].y>> = <<cars[k1].x, cars[k1].y>>
               /\ \E l2 \in 1..Len(cars') :
                      /\ cars'[l2].id = id2
                      /\ <<cars'[l2].x, cars'[l2].y>> = <<cars[k2].x, cars[k2].y>>

\* C36, amended: after every step(), two live cars occupy the same cell
\* only where one of them, held inside an intersection for more than 3
\* consecutive ticks, has advanced out of it in that tick under the
\* exception of the following gate, or where the two already shared the
\* cell before the tick and neither has moved; so no car spawned in the tick
\* shares a cell, and no other advance or reroute ends on the cell of
\* another car.
C36_CollisionOnlyByForcedExit ==
    [][IsTick =>
        \A i, j \in 1..Len(cars') :
            share_a_cell(cars', i, j) =>
                \/ forced_out_in_tick(cars'[i].id)
                \/ forced_out_in_tick(cars'[j].id)
                \/ stay_together_in_tick(cars'[i].id, cars'[j].id)]_vars

\* A car has forced its way out onto the cell of a car outside, while a
\* car spawned in the same tick stands alone on its cell.
C36_Witness ==
    /\ last_call.op = "step"
    /\ \E i, j \in 1..Len(cars) :
           /\ share_a_cell(cars, i, j)
           /\ cars[i].ticks_in_intersection > 3
           /\ ~cars[i].waiting
    /\ \E n \in 1..Len(cars) :
           /\ cars[n].id = total_cars_spawned
           /\ cars[n].total_wait_time + cars[n].current_wait_time = 0
           /\ \A m \in 1..Len(cars) : ~share_a_cell(cars, n, m)

\* The cell one step from the car's cell along the heading d.
cell_towards(car, d) == <<car.x + d[1], car.y + d[2]>>

\* C37: after every step() every live car is on a Road or Intersection
\* cell; and in each tick a car either keeps its position, and then its
\* heading too, or moves by exactly one cell, along the heading it held at
\* the start of the tick or along another heading its cell permits (a
\* reroute).
C37_OnRoadOneCellAtATime ==
    /\ [](\A j \in 1..Len(cars) : is_road(cars[j].x, cars[j].y))
    /\ [][IsTick =>
            \A a \in attempts_in_tick :
                IF advanced(a)
                THEN \/ <<a.result.x, a.result.y>> = cell_towards(a.self, a.self.direction)
                     \/ \E k \in 1..Len(get_allowed_directions(a.self.x, a.self.y)) :
                            <<a.result.x, a.result.y>> =
                                cell_towards(a.self, get_allowed_directions(a.self.x, a.self.y)[k])
                ELSE a.result.direction = a.self.direction]_vars

\* After a tick one car has advanced into an intersection and turned there,
\* one has advanced along a lane, and one, held, has kept its cell.
C37_Witness ==
    /\ last_call.op = "step"
    /\ \E i, j, k \in 1..Len(cars) :
           /\ ~cars[i].waiting
           /\ is_intersection(cars[i].x, cars[i].y)
           /\ cars[i].direction /= cars[i].entry_direction
           /\ ~cars[j].waiting
           /\ ~is_intersection(cars[j].x, cars[j].y)
           /\ cars[j].current_wait_time = 0 /\ cars[j].total_wait_time > 0
           /\ cars[k].waiting /\ cars[k].current_wait_time >= 2

\* The cars of the coming tick, by their place in the list after the spawn
\* step, that the tick removes.
removed_in_tick ==
    {j \in 1..Len(cars_in_tick) : cars_in_tick[j].id \notin ids_of(cars')}

\* C38: total_cars_spawned never decreases; it is 0 with no car at the
\* start, and over every tick it grows by the growth of the number of live
\* cars plus the number of cars the tick removes, so that after every
\* step() it equals the number of live cars plus the number of cars removed
\* so far; and a car is removed only when its move has taken it to a
\* position outside the map.
C38_SpawnAccounting ==
    /\ [](/\ tick_count = 0 => (total_cars_spawned = 0 /\ cars = <<>>)
          /\ total_cars_spawned >= Len(cars))
    /\ [][/\ total_cars_spawned' >= total_cars_spawned
          /\ IF IsTick
             THEN /\ total_cars_spawned' - total_cars_spawned =
                        (Len(cars') - Len(cars)) + Cardinality(removed_in_tick)
                  /\ \A j \in removed_in_tick :
                         \E a \in attempts_in_tick :
                             /\ a.self = cars_in_tick[j]
                             /\ ~in_bounds(a.result.x, a.result.y)
             ELSE /\ total_cars_spawned' = total_cars_spawned
                  /\ Len(cars') = Len(cars)]_vars

\* Two cars have been removed, others are live, and a car that found its
\* spawn point free has just been added.
C38_Witness ==
    /\ last_call.op = "step"
    /\ total_cars_spawned - Len(cars) >= 2
    /\ \E n \in 1..Len(cars) :
           /\ cars[n].id = total_cars_spawned
           /\ cars[n].ticks_in_intersection = 0
           /\ \E k \in 1..Len(spawn_points) :
                  <<cars[n].x, cars[n].y>> =
                      <<spawn_points[k][1] + spawn_points[k][3][1],
                        spawn_points[k][2] + spawn_points[k][3][2]>>

\* The coming transition is a call of TrafficEnv.step.
IsEnvStep == env'.last = "step" /\ env'.steps = env.steps + 1

\* The coming transition is a call of TrafficEnv.reset.
IsEnvReset == env'.last = "reset" /\ env'.episodes = env.episodes + 1

\* The actions the dict of the call holds for the intersection i.
requested_for(actions, i) ==
    {actions[k][2] : k \in {n \in 1..Len(actions) : actions[n][1] = i}}

\* C39: every call of TrafficEnv.step runs to its end; it changes
\* current_phases[id] only to the requested action, and only when at least
\* min_phase_time (30) steps have elapsed on the switch timer of that
\* intersection, which counts the steps since its last phase change or since
\* reset; and for every intersection of the call the phase handed to the
\* simulation in that step is current_phases[id].
C39_MinimumPhaseTime ==
    [][IsEnvStep =>
        /\ env'.returned
        /\ \A i \in env_intersections :
               LET requested == requested_for(env'.actions, i)
                   changed == env'.current_phases[i] /= env.current_phases[i]
               IN  /\ changed =>
                          /\ requested = {env'.current_phases[i]}
                          /\ env.time_since_last_switch[i] >= min_phase_time
                   /\ requested /= {} =>
                          /\ env'.applied[i] = env'.current_phases[i]
                          /\ env'.time_since_last_switch[i] =
                                 (IF changed THEN 0 ELSE env.time_since_last_switch[i]) + 1]_vars

\* C40: every call of TrafficEnv.step returns, with done = true if and only
\* if the simulation's tick count is at least 2000; the k-th step of an
\* episode started with reset() leaves the simulation at tick k, so that done
\* is reported on exactly the 2000th step; and reset() starts a new
\* simulation with tick count 0, phases 0 and switch timers 0.
C40_EpisodeTermination ==
    /\ [](env.episodes >= 1 => tick_count = env.steps)
    /\ [][IsEnvStep =>
            /\ env'.returned
            /\ env'.done <=> (tick_count' >= max_episode_length)]_vars
    /\ [][IsEnvReset =>
            /\ tick_count' = 0
            /\ \A i \in env_intersections :
                   /\ env'.current_phases[i] = 0
                   /\ env'.time_since_last_switch[i] = 0]_vars

====
